---- MODULE Spec2Model ----
(***************************************************************************)
(* Model of MoritzServer: the MAX!/Moritz message codec (messages.py), the *)
(* serial transport worker CULComThread and the protocol engine            *)
(* CULMessageThread (communication.py), and the command submission of the  *)
(* HTTP front end (bin/moritz-server.py).                                  *)
(*                                                                         *)
(* A line of text is a sequence of one-character strings.  Lines on the    *)
(* serial port are kept without their CRLF terminator, i.e. as the         *)
(* completed_line of _read_result.  Temperatures are kept in tenths of a   *)
(* degree (5.5 degrees is 55) because the code's floats are multiples of   *)
(* 0.1.  datetime.now() is a logical clock: the number of lines the engine *)
(* has taken off the receive queue.                                        *)
(***************************************************************************)
EXTENDS Integers, Sequences, FiniteSets, TLC

(***************************************************************************)
(* Bounds of the model.                                                    *)
(***************************************************************************)
MaxInbound == 1      \* radio frames the transceiver delivers in one run
MaxSubmits == 1      \* commands put on the command queue from outside
MaxLoops == 2        \* iterations of the transport's main loop
MaxBurst == 2        \* radio frames of a burst
MaxQueries == 1      \* requests for /current_thermostat_states

(***************************************************************************)
(* Program constants.                                                      *)
(***************************************************************************)
CUBE_ID == 1193046             \* 0x123456
VersionAttempts == 10          \* range(10) around _get_cul_ver
BudgetReads == 10              \* range(10) in the budget refresh
PairBudget == 2000             \* has_send_budget threshold
None == "None"

(***************************************************************************)
(* Text helpers: Python slicing, int(s, 16), "%X" and zfill.               *)
(***************************************************************************)
Min(a, b) == IF a < b THEN a ELSE b
Max(a, b) == IF a > b THEN a ELSE b

\* s[a:b] with 0 <= a, 0 <= b, clamped to the string like Python does
Slice(s, a, b) == SubSeq(s, a + 1, Min(b, Len(s)))
\* s[a:]
SliceFrom(s, a) == SubSeq(s, a + 1, Len(s))
\* s[:-2]
DropLast2(s) == SubSeq(s, 1, Len(s) - 2)
\* s[-2:]
Last2(s) == SubSeq(s, Max(1, Len(s) - 1), Len(s))

StartsWith(s, p) == Len(s) >= Len(p) /\ SubSeq(s, 1, Len(p)) = p

HexDigits == <<"0", "1", "2", "3", "4", "5", "6", "7",
               "8", "9", "A", "B", "C", "D", "E", "F">>
IsHexChar(c) == \E d \in 1..16 : HexDigits[d] = c
HexVal(c) == (CHOOSE d \in 1..16 : HexDigits[d] = c) - 1
IsDecChar(c) == \E d \in 1..10 : HexDigits[d] = c

RECURSIVE DigitsValue(_, _)
DigitsValue(s, base) ==
    IF s = <<>> THEN 0
    ELSE DigitsValue(SubSeq(s, 1, Len(s) - 1), base) * base + HexVal(s[Len(s)])

\* int(s, base=16): ValueError on the empty string and on a non-hex character
IsHexString(s) == s # <<>> /\ \A i \in 1..Len(s) : IsHexChar(s[i])
Int16(s) == DigitsValue(s, 16)

\* int(s) in base 10
IsDecString(s) == s # <<>> /\ \A i \in 1..Len(s) : IsDecChar(s[i])
Int10(s) == DigitsValue(s, 10)

RECURSIVE Strip(_)
Strip(s) ==
    IF s = <<>> THEN s
    ELSE IF s[1] = " " THEN Strip(Tail(s))
    ELSE IF s[Len(s)] = " " THEN Strip(SubSeq(s, 1, Len(s) - 1))
    ELSE s

\* "%X" % n for n >= 0
RECURSIVE PyHex(_)
PyHex(n) ==
    IF n < 16 THEN <<HexDigits[n + 1]>>
    ELSE Append(PyHex(n \div 16), HexDigits[(n % 16) + 1])

\* str(n) for n >= 0
RECURSIVE PyStr(_)
PyStr(n) ==
    IF n < 10 THEN <<HexDigits[n + 1]>>
    ELSE Append(PyStr(n \div 10), HexDigits[(n % 10) + 1])

RECURSIVE ZFill(_, _)
ZFill(s, width) == IF Len(s) >= width THEN s ELSE ZFill(<<"0">> \o s, width)

\* bytearray.fromhex(s): ValueError unless s is an even number of hex digits
FromHexOk(s) == Len(s) % 2 = 0 /\ \A i \in 1..Len(s) : IsHexChar(s[i])
FromHex(s) == [i \in 1..(Len(s) \div 2) |-> HexVal(s[2 * i - 1]) * 16 + HexVal(s[2 * i])]

\* x & m and x | m for x, m >= 0
RECURSIVE BitAnd(_, _)
BitAnd(x, m) ==
    IF x = 0 \/ m = 0 THEN 0
    ELSE 2 * BitAnd(x \div 2, m \div 2) + (IF x % 2 = 1 /\ m % 2 = 1 THEN 1 ELSE 0)
RECURSIVE BitOr(_, _)
BitOr(x, m) ==
    IF x = 0 THEN m ELSE IF m = 0 THEN x
    ELSE 2 * BitOr(x \div 2, m \div 2) + (IF x % 2 = 1 \/ m % 2 = 1 THEN 1 ELSE 0)
\* x & m for a Python int x of either sign and 0 <= m < 4096 (two's complement)
BitAndSigned(x, m) == BitAnd(x % 4096, m)

\* dict.update: the keys of new win
Update(old, new) == new @@ old
EmptyDict == [k \in {} |-> 0]


(***************************************************************************)
(* messages.py: the message classes and the frame codec.                   *)
(***************************************************************************)
DEVICE_TYPES == <<"Cube", "HeatingThermostat", "HeatingThermostatPlus",
                  "WallMountedThermostat", "ShutterContact", "PushButton">>
IsDeviceTypeName(n) == \E i \in 1..Len(DEVICE_TYPES) : DEVICE_TYPES[i] = n
DEVICE_TYPES_BY_NAME(n) == (CHOOSE i \in 1..Len(DEVICE_TYPES) : DEVICE_TYPES[i] = n) - 1

MODE_IDS == <<"auto", "manual", "temporary", "boost">>
IsModeName(n) == \E i \in 1..Len(MODE_IDS) : MODE_IDS[i] = n
ModeByName(n) == (CHOOSE i \in 1..Len(MODE_IDS) : MODE_IDS[i] = n) - 1

MORITZ_MESSAGE_IDS ==
    (0 :> "PairPingMessage") @@ (1 :> "PairPongMessage") @@ (2 :> "AckMessage")
    @@ (3 :> "TimeInformationMessage")
    @@ (16 :> "ConfigWeekProfileMessage") @@ (17 :> "ConfigTemperaturesMessage")
    @@ (18 :> "ConfigValveMessage")
    @@ (32 :> "AddLinkPartnerMessage") @@ (33 :> "RemoveLinkPartnerMessage")
    @@ (34 :> "SetGroupIdMessage") @@ (35 :> "RemoveGroupIdMessage")
    @@ (48 :> "ShutterContactStateMessage")
    @@ (64 :> "SetTemperatureMessage") @@ (66 :> "WallThermostatControlMessage")
    @@ (67 :> "SetComfortTemperatureMessage") @@ (68 :> "SetEcoTemperatureMessage")
    @@ (80 :> "PushButtonStateMessage")
    @@ (96 :> "ThermostatStateMessage")
    @@ (112 :> "WallThermostatStateMessage")
    @@ (130 :> "SetDisplayActualTemperatureMessage")
    @@ (241 :> "WakeUpMessage") @@ (240 :> "ResetMessage")
MsgIdOf(cls) == CHOOSE t \in DOMAIN MORITZ_MESSAGE_IDS : MORITZ_MESSAGE_IDS[t] = cls

\* MoritzMessage.__init__ of the class cls
MoritzMessage(cls) ==
    [cls |-> cls, counter |-> 0, flag |-> 0, sender_id |-> 0, receiver_id |-> 0,
     group_id |-> 0, payload |-> <<>>]

\* The hex fields decode_message converts with int(..., base=16), in source order
HeaderFields(s) ==
    <<Slice(s, 1, 3), Slice(s, 3, 5), Slice(s, 5, 7), Slice(s, 7, 9),
      Slice(s, 9, 15), Slice(s, 15, 21), Slice(s, 21, 23)>>

\* MoritzMessage.decode_message: [err |-> None, msg |-> the message] or the
\* name of the exception it raises
decode_message(input_string) ==
    LET s == IF StartsWith(input_string, <<"Z", "s">>)
             THEN SliceFrom(input_string, 1) ELSE input_string
        f == HeaderFields(s)
        length == Int16(f[1])
        msgtype == Int16(f[4])
    IN  IF \E i \in 1..7 : ~IsHexString(f[i])
        THEN [err |-> "ValueError", msg |-> MoritzMessage(None)]
        ELSE IF (Len(s) - 3) # length * 2
        THEN [err |-> "LengthNotMatchingError", msg |-> MoritzMessage(None)]
        ELSE IF msgtype \notin DOMAIN MORITZ_MESSAGE_IDS
        THEN [err |-> "UnknownMessageError", msg |-> MoritzMessage(None)]
        ELSE [err |-> None,
              msg |-> [cls |-> MORITZ_MESSAGE_IDS[msgtype],
                       counter |-> Int16(f[2]), flag |-> Int16(f[3]),
                       sender_id |-> Int16(f[5]), receiver_id |-> Int16(f[6]),
                       group_id |-> Int16(f[7]), payload |-> SliceFrom(s, 23)]]

(***************************************************************************)
(* Payloads handed to encode_message: a dict, a datetime or None.          *)
(***************************************************************************)
DictPayload(d) == [kind |-> "dict", val |-> d]
DatePayload(dt) == [kind |-> "datetime", val |-> dt]
NonePayload == [kind |-> "none", val |-> EmptyDict]

\* PairPongMessage.encode_payload
PairPongEncodePayload(payload) ==
    IF payload.kind # "dict" THEN [err |-> "TypeError", hex |-> <<>>]
    ELSE IF "devicetype" \notin DOMAIN payload.val \/ ~IsDeviceTypeName(payload.val["devicetype"])
    THEN [err |-> "KeyError", hex |-> <<>>]
    ELSE [err |-> None,
          hex |-> ZFill(PyStr(DEVICE_TYPES_BY_NAME(payload.val["devicetype"])), 2)]

\* an encode_payload that puts the month's low bits one bit too low
TimeInformationEncodePayloadLowMonth(payload) ==
    IF payload.kind = "none" THEN [err |-> None, hex |-> <<>>]
    ELSE IF payload.kind # "datetime" THEN [err |-> "AttributeError", hex |-> <<>>]
    ELSE LET dt == payload.val
         IN [err |-> None,
             hex |-> ZFill(PyHex(dt.year - 2000), 2)
                     \o ZFill(PyHex(dt.day), 2)
                     \o ZFill(PyHex(dt.hour), 2)
                     \o ZFill(PyHex(BitOr(dt.minute, BitAnd(dt.month, 12) * 16)), 2)
                     \o ZFill(PyHex(BitOr(dt.second, BitAnd(dt.month, 3) * 32)), 2)]

\* TimeInformationMessage.encode_payload
TimeInformationEncodePayload(payload) ==
    IF payload.kind = "none" THEN [err |-> None, hex |-> <<>>]
    ELSE IF payload.kind # "datetime" THEN [err |-> "AttributeError", hex |-> <<>>]
    ELSE LET dt == payload.val
         IN [err |-> None,
             hex |-> ZFill(PyHex(dt.year - 2000), 2)
                     \o ZFill(PyHex(dt.day), 2)
                     \o ZFill(PyHex(dt.hour), 2)
                     \o ZFill(PyHex(BitOr(dt.minute, BitAnd(dt.month, 12) * 16)), 2)
                     \o ZFill(PyHex(BitOr(dt.second, BitAnd(dt.month, 3) * 64)), 2)]

\* a half-degree count that cuts the setpoint off instead of rounding it
IntTemperatureTruncated(t10) ==
    IF t10 > 305 THEN 61
    ELSE IF t10 < 45 THEN 9
    ELSE (2 * t10) \div 10

\* The half-degree count int(desired_temperature * 2) of SetTemperatureMessage.encode_payload,
\* for a temperature t10 >= 0 given in tenths of a degree
IntTemperature(t10) ==
    IF t10 > 305 THEN 61
    ELSE IF t10 < 45 THEN 9
    ELSE (2 * t10 + 5) \div 10

\* SetTemperatureMessage.encode_payload
SetTemperatureEncodePayload(payload) ==
    IF payload.kind # "dict" THEN [err |-> "TypeError", hex |-> <<>>]
    ELSE IF "desired_temperature" \notin DOMAIN payload.val
    THEN [err |-> "MissingPayloadParameterError", hex |-> <<>>]
    ELSE IF "mode" \notin DOMAIN payload.val
    THEN [err |-> "MissingPayloadParameterError", hex |-> <<>>]
    ELSE IF ~IsModeName(payload.val["mode"])
    THEN [err |-> "KeyError", hex |-> <<>>]
    ELSE [err |-> None,
          hex |-> ZFill(PyHex(BitOr(ModeByName(payload.val["mode"]) * 64,
                                    IntTemperature(payload.val["desired_temperature"]))), 2)]

HasEncodePayload(cls) ==
    cls \in {"PairPongMessage", "TimeInformationMessage", "SetTemperatureMessage"}

encode_payload(cls, payload) ==
    CASE cls = "PairPongMessage" -> PairPongEncodePayload(payload)
      [] cls = "TimeInformationMessage" -> TimeInformationEncodePayload(payload)
      [] cls = "SetTemperatureMessage" -> SetTemperatureEncodePayload(payload)

\* encode_flag of the classes that have one; the flag is kept otherwise
encode_flag(m) ==
    CASE m.cls = "TimeInformationMessage" -> IF m.payload = <<>> THEN 10 ELSE 4
      [] m.cls = "SetTemperatureMessage" -> IF m.group_id # 0 THEN 4 ELSE 0
      [] OTHER -> m.flag

\* an encode_message whose length field counts characters, not bytes
EncodeMessageLengthInChars(m, payload) ==
    LET enc == IF HasEncodePayload(m.cls) THEN encode_payload(m.cls, payload)
               ELSE [err |-> None, hex |-> m.payload]
        m1 == [m EXCEPT !.payload = enc.hex]
        m2 == [m1 EXCEPT !.flag = encode_flag(m1)]
        message == ZFill(PyHex(m2.counter), 2) \o ZFill(PyHex(m2.flag), 2)
                   \o ZFill(PyHex(MsgIdOf(m2.cls)), 2)
                   \o ZFill(PyHex(m2.sender_id), 6) \o ZFill(PyHex(m2.receiver_id), 6)
                   \o ZFill(PyHex(m2.group_id), 2) \o m2.payload
    IN  IF enc.err # None THEN [err |-> enc.err, raw |-> <<>>]
        ELSE [err |-> None,
              raw |-> <<"Z", "s">> \o ZFill(PyHex(Len(message)), 2) \o message]

\* MoritzMessage.encode_message: [err |-> None, raw |-> the wire string] or
\* the name of the exception encode_payload raises
encode_message(m, payload) ==
    LET enc == IF HasEncodePayload(m.cls) THEN encode_payload(m.cls, payload)
               ELSE [err |-> None, hex |-> m.payload]
        m1 == [m EXCEPT !.payload = enc.hex]
        m2 == [m1 EXCEPT !.flag = encode_flag(m1)]
        message == ZFill(PyHex(m2.counter), 2) \o ZFill(PyHex(m2.flag), 2)
                   \o ZFill(PyHex(MsgIdOf(m2.cls)), 2)
                   \o ZFill(PyHex(m2.sender_id), 6) \o ZFill(PyHex(m2.receiver_id), 6)
                   \o ZFill(PyHex(m2.group_id), 2) \o m2.payload
    IN  IF enc.err # None THEN [err |-> enc.err, raw |-> <<>>]
        ELSE [err |-> None,
              raw |-> <<"Z", "s">> \o ZFill(PyHex(Len(message) \div 2), 2) \o message]

(***************************************************************************)
(* decoded_payload of the classes the engine looks into.  A result is      *)
(* [err |-> None, val |-> the dict] or the name of the exception raised.   *)
(***************************************************************************)
\* ThermostatStateMessage.decode_status; struct.unpack(">bBB", ...) reads the
\* first byte signed
decode_status(payload) ==
    LET hex == Slice(payload, 0, 6)
        bytes == FromHex(hex)
        status_bits == IF bytes[1] >= 128 THEN bytes[1] - 256 ELSE bytes[1]
        shifted == status_bits \div 512
    IN  IF ~FromHexOk(hex) THEN [err |-> "ValueError", val |-> EmptyDict]
        ELSE IF Len(hex) # 6 THEN [err |-> "struct.error", val |-> EmptyDict]
        ELSE [err |-> None,
              val |-> [mode |-> MODE_IDS[BitAndSigned(status_bits, 3) + 1],
                       dstsetting |-> BitAndSigned(status_bits, 4) # 0,
                       langateway |-> BitAndSigned(status_bits, 8) # 0,
                       is_locked |-> BitAndSigned(shifted, 1) # 0,
                       rferror |-> BitAndSigned(shifted, 2) # 0,
                       battery_low |-> BitAndSigned(shifted, 4) # 0,
                       desired_temperature |-> BitAnd(bytes[3], 127) * 5,
                       valve_position |-> bytes[2]]]

\* ThermostatStateMessage.decoded_payload
ThermostatStateDecodedPayload(payload) ==
    LET result == decode_status(payload)
        tail == SliceFrom(payload, 6)
        pending_payload == FromHex(tail)
    IN  IF result.err # None THEN result
        ELSE IF Len(payload) <= 6 THEN result
        ELSE IF ~FromHexOk(tail) THEN [err |-> "ValueError", val |-> EmptyDict]
        ELSE IF Len(pending_payload) = 2 /\ result.val["mode"] # "temporary"
        THEN [err |-> None,
              val |-> Update(result.val,
                             "measured_temperature" :>
                                 (BitAnd(pending_payload[1], 1) * 256 + pending_payload[2]))]
        ELSE result

\* AckMessage.decoded_payload
AckDecodedPayload(payload) ==
    LET state == IF StartsWith(payload, <<"0", "1">>) THEN "state" :> "ok"
                 ELSE IF StartsWith(payload, <<"8", "1">>) THEN "state" :> "invalid_command"
                 ELSE EmptyDict
        status == decode_status(SliceFrom(payload, 2))
    IN  IF Len(payload) # 8 THEN [err |-> None, val |-> state]
        ELSE IF status.err # None THEN status
        ELSE [err |-> None, val |-> Update(state, status.val)]

\* SetTemperatureMessage.decoded_payload; desired_temperature in tenths of a degree
SetTemperatureDecodedPayload(payload) ==
    LET hex == Slice(payload, 0, 4)
        bytes == FromHex(hex)
    IN  IF ~FromHexOk(hex) THEN [err |-> "ValueError", val |-> EmptyDict]
        ELSE IF Len(bytes) # 1 THEN [err |-> "struct.error", val |-> EmptyDict]
        ELSE [err |-> None,
              val |-> [desired_temperature |-> BitAnd(bytes[1], 63) * 5,
                       mode |-> MODE_IDS[(bytes[1] \div 64) + 1]]]

\* the days of a month of the proleptic Gregorian calendar
DaysInMonth(year, month) ==
    IF month \in {4, 6, 9, 11} THEN 30
    ELSE IF month # 2 THEN 31
    ELSE IF year % 4 = 0 /\ (year % 100 # 0 \/ year % 400 = 0) THEN 29
    ELSE 28

\* the arguments datetime(...) accepts; it raises ValueError for the others
IsDateTime(dt) ==
    /\ dt.year \in 1..9999 /\ dt.month \in 1..12
    /\ dt.day \in 1..DaysInMonth(dt.year, IF dt.month \in 1..12 THEN dt.month ELSE 1)
    /\ dt.hour \in 0..23 /\ dt.minute \in 0..59 /\ dt.second \in 0..59

\* TimeInformationMessage.decoded_payload
TimeInformationDecodedPayload(payload) ==
    LET hex == Slice(payload, 0, 12)
        bytes == FromHex(hex)
        dt == [year |-> bytes[1] + 2000,
               minute |-> BitAnd(bytes[4], 63),
               month |-> BitOr(BitAnd(bytes[4] \div 16, 12), BitAnd(bytes[5] \div 64, 3)),
               day |-> bytes[2],
               hour |-> bytes[3],
               second |-> BitAnd(bytes[5], 63)]
    IN  IF ~FromHexOk(hex) THEN [err |-> "ValueError", val |-> EmptyDict]
        ELSE IF Len(bytes) # 5 THEN [err |-> "struct.error", val |-> EmptyDict]
        ELSE IF ~IsDateTime(dt) THEN [err |-> "ValueError", val |-> EmptyDict]
        ELSE [err |-> None, val |-> dt]

\* PairPongMessage.decoded_payload
PairPongDecodedPayload(payload) ==
    IF ~IsDecString(payload) THEN [err |-> "ValueError", val |-> EmptyDict]
    ELSE IF Int10(payload) >= Len(DEVICE_TYPES) THEN [err |-> "KeyError", val |-> EmptyDict]
    ELSE [err |-> None, val |-> [devicetype |-> DEVICE_TYPES[Int10(payload) + 1]]]

\* msg.decoded_payload; MoritzMessage's own raises NotImplementedError
\* (PairPingMessage's, which nothing here reads, is left out)
decoded_payload(msg) ==
    CASE msg.cls = "AckMessage" -> AckDecodedPayload(msg.payload)
      [] msg.cls = "PairPongMessage" -> PairPongDecodedPayload(msg.payload)
      [] msg.cls = "TimeInformationMessage" -> TimeInformationDecodedPayload(msg.payload)
      [] msg.cls = "SetTemperatureMessage" -> SetTemperatureDecodedPayload(msg.payload)
      [] msg.cls = "ThermostatStateMessage" -> ThermostatStateDecodedPayload(msg.payload)
      [] OTHER -> [err |-> "NotImplementedError", val |-> EmptyDict]

(***************************************************************************)
(* The state of the program and of the transceiver it talks to.            *)
(***************************************************************************)
VARIABLES
    \* CULComThread
    com_pc,              \* position of the transport worker in run / _init_cul
    round,               \* 1: first for-loop of _init_cul, 2: after reopening
    attempt,             \* i of the for-loop around _get_cul_ver
    loops,               \* iterations of the main loop started so far
    cul_version,         \* self.cul_version, <<>> is ""
    pending_budget,      \* self._pending_budget
    pending_message,     \* self._pending_message, <<>> is None
    com_stop,            \* self.stop_requested of the transport
    \* the serial port and the transceiver behind it
    port_in,             \* complete lines the transceiver has sent, not yet read
    port_out,            \* commands written to the port, oldest first
    dev_pending,         \* queries ("V", "X") the transceiver may still answer
    delivered,           \* radio frames the transceiver has delivered so far
    port_open,           \* self.com_port is an open serial port
    \* the queues
    read_queue,          \* com_receive_queue
    send_queue,          \* com_send_queue
    command_queue,       \* command_queue of (message, payload) pairs
    submits,             \* commands submitted from outside so far
    \* CULMessageThread
    engine_pc,           \* "run", or "crashed" once an exception has left run
    engine_exc,          \* the exception that ended run, and where it was raised
    thermostat_states,   \* the device registry, a defaultdict(dict)
    clock,               \* datetime.now(): lines taken off the receive queue
    pair_as_cube, pair_as_wallthermostat, pair_as_ShutterContact,
    engine_stop,         \* self.stop_requested of the engine
    registry_lock,       \* who holds thermostat_states_lock: "free", "engine"
    handling,            \* msg, signal_strenth of respond_to_message in the with-block
    \* the web server
    snapshot,            \* what /current_thermostat_states returned last
    queries,             \* requests for /current_thermostat_states so far
    \* the main thread
    main_pc,             \* "serve", or its position in CULMessageThread.join
    \* history
    trace,               \* what the engine decoded, put and published, in order
    zs_unanswered,       \* a "Zs" was written and no "21  " line read since
    banner_seen,         \* some _get_cul_ver obtained a version banner
    aired,               \* the radio frames the transceiver has printed, in order
    \* the message classes used on their own
    codec_in,            \* the argument of a call of a method of messages.py
    codec_out            \* what the call returned or raised; NotCalled before it

comVars == <<com_pc, round, attempt, loops, cul_version, pending_budget,
             pending_message, com_stop>>
portVars == <<port_in, port_out, dev_pending, delivered, port_open>>
queueVars == <<read_queue, send_queue, command_queue, submits>>
engineVars == <<engine_pc, engine_exc, thermostat_states, clock,
                pair_as_cube, pair_as_wallthermostat, pair_as_ShutterContact>>
mainVars == <<engine_stop, main_pc>>
lockVars == <<registry_lock, handling, snapshot, queries>>
historyVars == <<trace, zs_unanswered, banner_seen>>
codecVars == <<codec_in, codec_out>>
vars == <<comVars, portVars, queueVars, engineVars, mainVars, historyVars, aired,
         lockVars,
         codecVars>>

NoException == [site |-> None, exc |-> None]
NotHandling == [msg |-> MoritzMessage("MoritzMessage"), signal_strenth |-> 0, now |-> 0]

\* the program after construction, whatever is done with messages.py beside it
InitProgram ==
    /\ com_pc = "open" /\ round = 1 /\ attempt = 0 /\ loops = 0
    /\ cul_version = <<>> /\ pending_budget = 0 /\ pending_message = <<>>
    /\ com_stop = FALSE
    /\ port_in = <<>> /\ port_out = <<>> /\ dev_pending = {} /\ delivered = 0
    /\ port_open = FALSE
    /\ read_queue = <<>> /\ send_queue = <<>> /\ command_queue = <<>> /\ submits = 0
    /\ engine_pc = "run" /\ engine_exc = NoException
    /\ thermostat_states = EmptyDict /\ clock = 0
    /\ pair_as_cube = TRUE /\ pair_as_wallthermostat = FALSE
    /\ pair_as_ShutterContact = FALSE
    /\ engine_stop = FALSE /\ main_pc = "serve"
    /\ trace = <<>> /\ zs_unanswered = FALSE /\ banner_seen = FALSE
    /\ aired = <<>>
    /\ registry_lock = "free" /\ handling = NotHandling
    /\ snapshot = EmptyDict /\ queries = 0

NotCalled == [kind |-> "none"]

Init == InitProgram /\ codec_in = NotCalled /\ codec_out = NotCalled

(***************************************************************************)
(* The transceiver and the radio.                                          *)
(***************************************************************************)
THERMOSTAT_A == 734548         \* 0x0B3554
THERMOSTAT_B == 589801         \* 0x08FFE9

\* "V <version>": the banner the transceiver answers a "V" with
VersionBanner == <<"V", " ", "1", ".", "6", "6">>

\* "21  <n>": the budget report the transceiver answers an "X" with
BudgetReports == {26, 27, 250}
BudgetLine(n) == <<"2", "1", " ", " ">> \o PyStr(n)

\* "Z<hex><rssi>": a radio frame as the transceiver prints it
RadioFrame(msgtype, counter, flag, sender, receiver, group, payload, rssi) ==
    LET body == ZFill(PyHex(counter), 2) \o ZFill(PyHex(flag), 2)
                \o ZFill(PyHex(msgtype), 2) \o ZFill(PyHex(sender), 6)
                \o ZFill(PyHex(receiver), 6) \o ZFill(PyHex(group), 2) \o payload
    IN  <<"Z">> \o ZFill(PyHex(Len(body) \div 2), 2) \o body \o rssi

PairPingBroadcast ==
    RadioFrame(0, 0, 4, THERMOSTAT_A, 0, 2,
               <<"1", "0", "0", "1", "A", "0", "4", "B", "4", "5">>, <<"F", "5">>)
PairPingToCube ==
    RadioFrame(0, 0, 4, THERMOSTAT_B, CUBE_ID, 0,
               <<"1", "0", "0", "1", "A", "0", "4", "B", "4", "5">>, <<"E", "0">>)
TimeRequest ==
    RadioFrame(3, 1, 10, THERMOSTAT_A, CUBE_ID, 3, <<>>, <<"F", "0">>)
StateReport ==
    RadioFrame(96, 97, 4, THERMOSTAT_B, 0, 0,
               <<"1", "9", "0", "0", "2", "0", "0", "0", "C", "A">>, <<"F", "5">>)
StateReportShort ==
    RadioFrame(96, 98, 4, THERMOSTAT_A, 0, 0, <<"1", "9", "0", "0">>, <<"F", "5">>)
AckOk ==
    RadioFrame(2, 185, 2, THERMOSTAT_A, CUBE_ID, 0,
               <<"0", "1", "1", "9", "0", "0", "0", "B">>, <<"E", "8">>)
AckUnknownState ==
    RadioFrame(2, 186, 2, THERMOSTAT_A, CUBE_ID, 0, <<"0", "0">>, <<"E", "8">>)
UnknownType ==
    RadioFrame(5, 1, 0, THERMOSTAT_A, CUBE_ID, 0, <<>>, <<"F", "5">>)
\* the length field says 11 bytes, the body has 10
WrongLength ==
    <<"Z", "0", "B">> \o SubSeq(UnknownType, 4, Len(UnknownType))
\* a character that is no hex digit in the sender id
BadHex ==
    [StateReport EXCEPT ![10] = "G"]

InboundLines ==
    {PairPingBroadcast, PairPingToCube, TimeRequest, StateReport, StateReportShort,
     AckOk, AckUnknownState, UnknownType, WrongLength, BadHex}

\* reception of radio frames is switched on by "Zr"
ReceptionEnabled == \E i \in 1..Len(port_out) : port_out[i] = <<"Z", "r">>

\* the transceiver answers the "V" of the attempts of a round listed in attempts
DeviceBanner(attempts) ==
    /\ "V" \in dev_pending
    /\ attempt + 1 \in attempts
    /\ port_in' = Append(port_in, VersionBanner)
    /\ dev_pending' = dev_pending \ {"V"}
    /\ UNCHANGED <<port_out, delivered, port_open, comVars, queueVars, engineVars, historyVars, mainVars,
                   aired, lockVars, codecVars>>

DeviceBudget(n) ==
    /\ "X" \in dev_pending
    /\ port_in' = Append(port_in, BudgetLine(n))
    /\ dev_pending' = dev_pending \ {"X"}
    /\ UNCHANGED <<port_out, delivered, port_open, comVars, queueVars, engineVars, historyVars, mainVars,
                   aired, lockVars, codecVars>>

\* The port's input buffer is looked at by _read_result only, so a frame that
\* arrives at any other moment is let in when the transport is about to call it
AboutToRead == com_pc \in {"setup_read", "budget_read", "drain"}

\* the transceiver prints a radio frame, the limit-th at most
DeviceFrameWithin(line, limit) ==
    /\ ReceptionEnabled
    /\ AboutToRead
    /\ delivered < limit
    /\ port_in' = Append(port_in, line)
    /\ delivered' = delivered + 1
    /\ aired' = Append(aired, line)
    /\ UNCHANGED <<port_out, dev_pending, port_open, comVars, queueVars, engineVars, historyVars, mainVars,
                   lockVars, codecVars>>

DeviceFrame(line) == DeviceFrameWithin(line, MaxInbound)

(***************************************************************************)
(* CULComThread: the serial transport worker.                              *)
(***************************************************************************)
\* _read_result on the lines buf waiting in the port: every "Z" line met goes
\* to the receive queue, the first other line is returned, the rest waits
RECURSIVE ReadResult(_)
ReadResult(buf) ==
    IF buf = <<>> THEN [found |-> FALSE, line |-> <<>>, zs |-> <<>>, rest |-> <<>>]
    ELSE IF StartsWith(Head(buf), <<"Z">>)
    THEN LET r == ReadResult(Tail(buf)) IN [r EXCEPT !.zs = <<Head(buf)>> \o r.zs]
    ELSE [found |-> TRUE, line |-> Head(buf), zs |-> <<>>, rest |-> Tail(buf)]

IsBudgetLine(line) == StartsWith(line, <<"2", "1", " ", " ">>)

\* int(read_line[3:].strip()) * 10 or 1
ParseBudget(line) ==
    LET v == Int10(Strip(SliceFrom(line, 3))) * 10 IN IF v = 0 THEN 1 ELSE v

\* the budget after run has looked at the result r of _read_result
BudgetAfterRead(r, budget) ==
    IF r.found /\ IsBudgetLine(r.line) THEN ParseBudget(r.line) ELSE budget

\* send_command that forgets to invalidate the budget
BudgetAfterSendKept(command, budget) == budget

\* send_command: the cached budget after writing command
BudgetAfterSend(command, budget) ==
    IF StartsWith(command, <<"Z", "s">>) THEN 0 ELSE budget

\* has_send_budget that asks for any budget at all
HasAnySendBudget(budget) == budget > 0

\* has_send_budget
has_send_budget(budget) == budget >= PairBudget

\* the quota test with >= in place of >
HasQuotaAtCost(budget, message) == budget >= Len(message) * 10

\* the quota test of run for the staged message
HasQuota(budget, message) == budget > Len(message) * 10

\* send_command on the port and the transceiver
Written(commands) ==
    /\ port_out' = port_out \o commands
    /\ dev_pending' = dev_pending \cup
           {c \in {"V", "X"} : \E i \in 1..Len(commands) : commands[i] = <<c>>}

\* _init_cul: open the port and drain it
Open ==
    /\ com_pc = "open"
    /\ LET r == ReadResult(port_in)
       IN  /\ read_queue' = read_queue \o r.zs
           /\ port_in' = r.rest
    /\ port_open' = TRUE
    /\ com_pc' = "ver_send"
    /\ UNCHANGED <<round, attempt, loops, cul_version, pending_budget,
                   pending_message, com_stop, port_out, dev_pending, delivered,
                   send_queue, command_queue, submits, engineVars, historyVars, mainVars,
                   aired, lockVars, codecVars>>

\* _get_cul_ver: send "V"
SendVersionQuery ==
    /\ com_pc = "ver_send"
    /\ Written(<<<<"V">>>>)
    /\ com_pc' = "ver_read"
    /\ UNCHANGED <<round, attempt, loops, cul_version, pending_budget,
                   pending_message, com_stop, port_in, delivered, port_open,
                   queueVars, engineVars, historyVars, mainVars, aired,
                   lockVars, codecVars>>

\* where _init_cul goes after an attempt of the given round that left version
AfterAttempt(rnd, i, version) ==
    IF rnd = 1
    THEN IF version # <<>> THEN "setup"
         ELSE IF i = VersionAttempts THEN "reopen" ELSE "ver_send"
    ELSE IF i = VersionAttempts THEN "failed" ELSE "ver_send"

\* _get_cul_ver: read the answer; then the rest of the for-loop body, and after
\* the last attempt of a round what follows the loop
ReadVersion ==
    /\ com_pc = "ver_read"
    /\ LET r == ReadResult(port_in)
           version == IF r.found THEN r.line ELSE <<>>
           next == AfterAttempt(round, attempt + 1, version)
       IN  /\ cul_version' = version
           /\ read_queue' = read_queue \o r.zs
           /\ banner_seen' = (banner_seen \/ version # <<>>)
           /\ CASE next = "reopen" ->
                     \* close and reopen the port: unread input is dropped
                     /\ port_in' = <<>> /\ round' = 2 /\ attempt' = 0
                     /\ com_pc' = "ver_send" /\ com_stop' = com_stop
                [] next = "failed" ->
                     \* "cannot communicate": stop_requested.set(); return
                     /\ port_in' = r.rest /\ round' = 1 /\ attempt' = 0
                     /\ com_pc' = "loop" /\ com_stop' = TRUE
                [] next = "setup" ->
                     \* break: the loop variable is not looked at again
                     /\ port_in' = r.rest /\ round' = 1 /\ attempt' = 0
                     /\ com_pc' = "setup" /\ com_stop' = com_stop
                [] OTHER ->
                     /\ port_in' = r.rest /\ round' = round /\ attempt' = attempt + 1
                     /\ com_pc' = "ver_send" /\ com_stop' = com_stop
    /\ dev_pending' = dev_pending \ {"V"}
    \* com_port.close() is followed at once by Serial(device_path)
    /\ port_open' = TRUE
    /\ UNCHANGED <<loops, pending_budget, pending_message,
                   port_out, delivered,
                   send_queue, command_queue, submits, engineVars,
                   trace, zs_unanswered, mainVars, aired, lockVars, codecVars>>

\* an initialization that leaves out T01
SetupWithoutT01 ==
    /\ com_pc = "setup"
    /\ Written(<<<<"X", "2", "1">>, <<"Z", "r">>>>)
    /\ com_pc' = "setup_read"
    /\ UNCHANGED <<round, attempt, loops, cul_version, pending_budget,
                   pending_message, com_stop, port_in, delivered, port_open,
                   queueVars, engineVars, historyVars, mainVars, aired,
                   lockVars, codecVars>>

\* _init_cul: X21, Zr, T01
Setup ==
    /\ com_pc = "setup"
    /\ Written(<<<<"X", "2", "1">>, <<"Z", "r">>, <<"T", "0", "1">>>>)
    /\ com_pc' = "setup_read"
    /\ UNCHANGED <<round, attempt, loops, cul_version, pending_budget,
                   pending_message, com_stop, port_in, delivered, port_open,
                   queueVars, engineVars, historyVars, mainVars, aired,
                   lockVars, codecVars>>

\* _init_cul: the closing _read_result, its return value is dropped
SetupRead ==
    /\ com_pc = "setup_read"
    /\ LET r == ReadResult(port_in)
       IN  /\ read_queue' = read_queue \o r.zs
           /\ port_in' = r.rest
    /\ com_pc' = "loop"
    /\ UNCHANGED <<round, attempt, loops, cul_version, pending_budget,
                   pending_message, com_stop, port_out, dev_pending, delivered, port_open,
                   send_queue, command_queue, submits, engineVars, historyVars, mainVars,
                   aired, lockVars, codecVars>>

\* run: the loop condition, and the budget request when the budget is unknown
LoopHead ==
    /\ com_pc = "loop"
    /\ IF com_stop
       THEN /\ com_pc' = "done"
            /\ UNCHANGED <<loops, port_out, dev_pending>>
       ELSE /\ loops < MaxLoops
            /\ loops' = loops + 1
            /\ IF pending_budget = 0
               THEN /\ Written(<<<<"X">>>>)
                    /\ com_pc' = "budget_read"
               ELSE /\ com_pc' = "drain"
                    /\ UNCHANGED <<port_out, dev_pending>>
    /\ UNCHANGED <<round, attempt, cul_version, pending_budget, pending_message,
                   com_stop, port_in, delivered, port_open, queueVars, engineVars, historyVars, mainVars,
                   aired, lockVars, codecVars>>

\* run: the for-loop that waits for the budget report, from pass i on: each
\* pass calls _read_result and stops the loop once the budget is known
RECURSIVE BudgetLoop(_, _, _, _, _)
BudgetLoop(i, buf, budget, zs, answered) ==
    IF i = BudgetReads THEN [rest |-> buf, budget |-> budget, zs |-> zs,
                             answered |-> answered]
    ELSE LET r == ReadResult(buf)
             b == BudgetAfterRead(r, budget)
             a == answered \/ (r.found /\ IsBudgetLine(r.line))
         IN  IF b > 0 THEN [rest |-> r.rest, budget |-> b, zs |-> zs \o r.zs,
                            answered |-> a]
             ELSE BudgetLoop(i + 1, r.rest, b, zs \o r.zs, a)

BudgetRead ==
    /\ com_pc = "budget_read"
    /\ LET l == BudgetLoop(0, port_in, pending_budget, <<>>, FALSE)
       IN  /\ read_queue' = read_queue \o l.zs
           /\ port_in' = l.rest
           /\ pending_budget' = l.budget
           /\ zs_unanswered' = (zs_unanswered /\ ~l.answered)
    /\ com_pc' = "drain"
    /\ UNCHANGED <<round, attempt, loops, cul_version, pending_message, com_stop,
                   port_out, dev_pending, delivered, port_open,
                   send_queue, command_queue, submits, engineVars,
                   trace, banner_seen, mainVars, aired, lockVars, codecVars>>

\* run: process pending received messages
Drain ==
    /\ com_pc = "drain"
    /\ LET r == ReadResult(port_in)
       IN  /\ read_queue' = read_queue \o r.zs
           /\ port_in' = r.rest
           /\ pending_budget' = BudgetAfterRead(r, pending_budget)
           /\ zs_unanswered' = (zs_unanswered /\ ~(r.found /\ IsBudgetLine(r.line)))
    /\ dev_pending' = dev_pending \ {"X"}
    /\ com_pc' = "send"
    /\ UNCHANGED <<round, attempt, loops, cul_version, pending_message,
                   com_stop, port_out, delivered, port_open,
                   send_queue, command_queue, submits, engineVars,
                   trace, banner_seen, mainVars, aired, lockVars, codecVars>>

\* a staging that lets a waiting send-queue entry take the staged message's place
StagedNewest(message, queue) == IF queue # <<>> THEN Head(queue) ELSE message

\* run: the message staged once the send queue has been looked at
Staged(message, queue) == IF message = <<>> /\ queue # <<>> THEN Head(queue) ELSE message

\* run: stage the next message of the send queue, send the staged message if
\* the quota allows, then sleep
Send ==
    /\ com_pc = "send"
    /\ LET staged == Staged(pending_message, send_queue)
       IN  /\ send_queue' = IF staged # pending_message THEN Tail(send_queue)
                            ELSE send_queue
           /\ IF staged # <<>>
              THEN IF HasQuota(pending_budget, staged)
                   THEN /\ pending_budget' = BudgetAfterSend(staged, pending_budget)
                        /\ zs_unanswered' =
                               (zs_unanswered \/ StartsWith(staged, <<"Z", "s">>))
                        /\ Written(<<staged>>)
                        /\ pending_message' = <<>>
                   ELSE /\ pending_budget' = 0
                        /\ pending_message' = staged
                        /\ UNCHANGED <<port_out, dev_pending, zs_unanswered>>
              ELSE UNCHANGED <<pending_budget, pending_message, port_out, dev_pending,
                               zs_unanswered>>
    /\ com_pc' = "loop"
    /\ UNCHANGED <<round, attempt, loops, cul_version, com_stop,
                   port_in, delivered, port_open, read_queue, command_queue, submits,
                   engineVars, trace, banner_seen, mainVars, aired, lockVars,
                   codecVars>>

(***************************************************************************)
(* CULMessageThread: the protocol engine.                                  *)
(***************************************************************************)
\* One entry of the history: kind is "decoded" (decode_message returned msg),
\* "put" (msg was put on the command queue) or the name of a published
\* signal; id numbers the inbound line being handled; reg is the device
\* registry at that moment
Entry(kind, id, msg, reg) == [kind |-> kind, id |-> id, msg |-> msg, reg |-> reg]

\* datetime.now() at logical time n
Now(n) == [year |-> 2014, month |-> 12, day |-> 1, hour |-> 2, minute |-> 33,
           second |-> n % 60]

\* what respond_to_message leaves behind: the exception that left it (or
\* None), the pairs it put on the command queue, the history it made and
\* the registry
Outcome(exc, cmds, log, reg) == [exc |-> exc, cmds |-> cmds, log |-> log, reg |-> reg]

Command(msg, payload) == [msg |-> msg, payload |-> payload]

\* a PairPong that copies the receiver of the PairPing
PairPongEcho(msg) ==
    [MoritzMessage("PairPongMessage") EXCEPT
        !.counter = 1, !.sender_id = CUBE_ID,
        !.receiver_id = msg.receiver_id, !.group_id = msg.group_id]

\* the PairPong built in answer to the PairPing msg
PairPongFor(msg) ==
    [MoritzMessage("PairPongMessage") EXCEPT
        !.counter = 1, !.sender_id = CUBE_ID,
        !.receiver_id = msg.sender_id, !.group_id = msg.group_id]

\* an answer that publishes device_pair_accepted before the put
PairAnswerEarly(msg, id, budget, reg) ==
    LET resp_msg == PairPongFor(msg)
    IN  IF has_send_budget(budget)
        THEN Outcome(None,
                     <<Command(resp_msg, DictPayload("devicetype" :> "Cube"))>>,
                     <<Entry("device_pair_request", id, msg, reg),
                       Entry("device_pair_accepted", id, resp_msg, reg),
                       Entry("put", id, resp_msg, reg)>>,
                     reg)
        ELSE Outcome(None, <<>>, <<Entry("device_pair_request", id, msg, reg)>>, reg)

\* the tail of both answering branches: answer if the send budget allows
PairAnswer(msg, id, budget, reg) ==
    LET resp_msg == PairPongFor(msg)
    IN  IF has_send_budget(budget)
        THEN Outcome(None,
                     <<Command(resp_msg, DictPayload("devicetype" :> "Cube"))>>,
                     <<Entry("device_pair_request", id, msg, reg),
                       Entry("put", id, resp_msg, reg),
                       Entry("device_pair_accepted", id, resp_msg, reg)>>,
                     reg)
        ELSE Outcome(None, <<>>, <<Entry("device_pair_request", id, msg, reg)>>, reg)

\* a handler that answers a broadcast PairPing whatever the pair roles are
RespondPairPingAnyRole(msg, id, budget, reg, roles) ==
    IF msg.receiver_id = 0 \/ msg.receiver_id = CUBE_ID
    THEN PairAnswer(msg, id, budget, reg)
    ELSE Outcome(None, <<>>, <<Entry("device_pair_request", id, msg, reg)>>, reg)

\* respond_to_message, isinstance(msg, PairPingMessage)
RespondPairPing(msg, id, budget, reg, roles) ==
    IF msg.receiver_id = 0
    THEN IF ~(roles[1] \/ roles[2] \/ roles[3])
         THEN Outcome(None, <<>>, <<Entry("device_pair_request", id, msg, reg)>>, reg)
         ELSE PairAnswer(msg, id, budget, reg)
    ELSE IF msg.receiver_id = CUBE_ID
    THEN PairAnswer(msg, id, budget, reg)
    ELSE Outcome(None, <<>>, <<Entry("device_pair_request", id, msg, reg)>>, reg)

\* a handler that answers a time request only if has_send_budget
RespondTimeInformationGated(msg, id, reg) ==
    IF msg.payload = <<>> /\ msg.receiver_id = CUBE_ID /\ has_send_budget(pending_budget)
    THEN LET resp_msg == [MoritzMessage("TimeInformationMessage") EXCEPT
                             !.counter = 1, !.sender_id = CUBE_ID,
                             !.receiver_id = msg.sender_id, !.group_id = msg.group_id]
         IN  Outcome(None, <<Command(resp_msg, DatePayload(Now(id)))>>,
                     <<Entry("put", id, resp_msg, reg)>>, reg)
    ELSE Outcome(None, <<>>, <<>>, reg)

\* respond_to_message, isinstance(msg, TimeInformationMessage)
RespondTimeInformation(msg, id, reg) ==
    IF msg.payload = <<>> /\ msg.receiver_id = CUBE_ID
    THEN LET resp_msg == [MoritzMessage("TimeInformationMessage") EXCEPT
                             !.counter = 1, !.sender_id = CUBE_ID,
                             !.receiver_id = msg.sender_id, !.group_id = msg.group_id]
         IN  Outcome(None, <<Command(resp_msg, DatePayload(Now(id)))>>,
                     <<Entry("put", id, resp_msg, reg)>>, reg)
    ELSE Outcome(None, <<>>, <<>>, reg)

\* thermostat_states[sender_id]: a defaultdict makes the missing entry
Touch(reg, sender_id) ==
    IF sender_id \in DOMAIN reg THEN reg ELSE reg @@ (sender_id :> EmptyDict)

\* thermostat_states[sender_id].update(decoded_payload)
MergeStatus(reg, sender_id, decoded) ==
    LET touched == Touch(reg, sender_id)
    IN  [touched EXCEPT ![sender_id] = Update(@, decoded)]

\* thermostat_states[sender_id]['last_updated'] = datetime.now()
MergeTime(reg, sender_id, now) ==
    LET touched == Touch(reg, sender_id)
    IN  [touched EXCEPT ![sender_id] = Update(@, "last_updated" :> now)]

\* thermostat_states[sender_id]['signal_strenth'] = signal_strenth
MergeSignal(reg, sender_id, signal_strenth) ==
    LET touched == Touch(reg, sender_id)
    IN  [touched EXCEPT ![sender_id] = Update(@, "signal_strenth" :> signal_strenth)]

\* the three statements under thermostat_states_lock
Merge(reg, sender_id, decoded, now, signal_strenth) ==
    LET touched == Touch(reg, sender_id)
    IN  [touched EXCEPT ![sender_id] =
            Update(Update(Update(@, decoded), "last_updated" :> now),
                   "signal_strenth" :> signal_strenth)]

\* respond_to_message, isinstance(msg, ThermostatStateMessage): the entry is
\* looked up before msg.decoded_payload, the argument of update, is evaluated
RespondThermostatState(msg, id, signal_strenth, reg) ==
    LET decoded == ThermostatStateDecodedPayload(msg.payload)
        merged == Merge(reg, msg.sender_id, decoded.val, id, signal_strenth)
    IN  IF decoded.err # None
        THEN Outcome(decoded.err, <<>>, <<>>, Touch(reg, msg.sender_id))
        ELSE Outcome(None, <<>>,
                     <<Entry("thermostatstate_received", id, msg, merged)>>, merged)

\* respond_to_message, isinstance(msg, AckMessage)
RespondAck(msg, id, signal_strenth, reg) ==
    LET decoded == AckDecodedPayload(msg.payload)
    IN  IF msg.receiver_id # CUBE_ID THEN Outcome(None, <<>>, <<>>, reg)
        ELSE IF decoded.err # None THEN Outcome(decoded.err, <<>>, <<>>, reg)
        ELSE IF "state" \notin DOMAIN decoded.val THEN Outcome("KeyError", <<>>, <<>>, reg)
        ELSE IF decoded.val["state"] # "ok" THEN Outcome(None, <<>>, <<>>, reg)
        ELSE Outcome(None, <<>>,
                     <<Entry("thermostatstate_received", id, msg, reg)>>,
                     Merge(reg, msg.sender_id, decoded.val, id, signal_strenth))

\* a respond_to_message whose last line looks the sender up in the registry
RespondToMessageTouching(msg, id, signal_strenth, budget, reg, roles) ==
    CASE msg.cls = "PairPingMessage" -> RespondPairPing(msg, id, budget, reg, roles)
      [] msg.cls = "TimeInformationMessage" -> RespondTimeInformation(msg, id, reg)
      [] msg.cls = "ThermostatStateMessage" ->
             RespondThermostatState(msg, id, signal_strenth, reg)
      [] msg.cls = "AckMessage" -> RespondAck(msg, id, signal_strenth, reg)
      [] OTHER -> Outcome(None, <<>>, <<>>, Touch(reg, msg.sender_id))

\* respond_to_message
respond_to_message(msg, id, signal_strenth, budget, reg, roles) ==
    CASE msg.cls = "PairPingMessage" -> RespondPairPing(msg, id, budget, reg, roles)
      [] msg.cls = "TimeInformationMessage" -> RespondTimeInformation(msg, id, reg)
      [] msg.cls = "ThermostatStateMessage" ->
             RespondThermostatState(msg, id, signal_strenth, reg)
      [] msg.cls = "AckMessage" -> RespondAck(msg, id, signal_strenth, reg)
      [] OTHER -> Outcome(None, <<>>, <<>>, reg)

\* the exceptions the first try of run catches: MoritzError and its subclasses
IsMoritzError(exc) ==
    exc \in {"MoritzError", "UnknownMessageError", "LengthNotMatchingError",
             "MissingPayloadParameterError"}

\* the first try of run for the line received_msg: decode, read the signal
\* strength, respond
HandleLine(received_msg, id, budget, reg, roles) ==
    LET decoded == decode_message(DropLast2(received_msg))
        rssi == Last2(received_msg)
        log == <<Entry("decoded", id, decoded.msg, reg)>>
        out == respond_to_message(decoded.msg, id, Int16(rssi), budget, reg, roles)
    IN  IF decoded.err # None THEN Outcome(decoded.err, <<>>, <<>>, reg)
        ELSE IF ~IsHexString(rssi) THEN Outcome("ValueError", <<>>, log, reg)
        ELSE [out EXCEPT !.log = log \o out.log]

\* a first try that takes the newest line of the receive queue
ReceiveNewest(queue, now, budget, reg, roles) ==
    IF queue = <<>> THEN Outcome(None, <<>>, <<>>, reg)
    ELSE LET out == HandleLine(queue[Len(queue)], now, budget, reg, roles)
         IN  IF IsMoritzError(out.exc) THEN [out EXCEPT !.exc = None] ELSE out

\* run, the first try: take a line from the receive queue and respond to it.
\* The result is what the try leaves behind; exc is None as well when the
\* queue was empty or the except clause caught a MoritzError
Receive(queue, now, budget, reg, roles) ==
    IF queue = <<>> THEN Outcome(None, <<>>, <<>>, reg)
    ELSE LET out == HandleLine(Head(queue), now, budget, reg, roles)
         IN  IF IsMoritzError(out.exc) THEN [out EXCEPT !.exc = None] ELSE out

\* run, the second try: take a command from the command queue, encode it and
\* hand the wire string to the transport.  Only Queue.Empty is caught
EncodeCommand(queue) ==
    IF queue = <<>> THEN [exc |-> None, raw |-> <<>>]
    ELSE LET enc == encode_message(Head(queue).msg, Head(queue).payload)
         IN  IF enc.err = None THEN [exc |-> None, raw |-> <<enc.raw>>]
             ELSE [exc |-> enc.err, raw |-> <<>>]

\* run: one iteration of the loop of the engine.  The transport touches the
\* receive queue and the budget, which only the first try reads, or the send
\* queue, which only the second try writes, so a step of the transport between
\* the two tries can be moved before or after the iteration
Run ==
    /\ engine_pc = "run"
    /\ ~engine_stop
    /\ \E out \in {Receive(read_queue, clock + 1, pending_budget, thermostat_states,
                           <<pair_as_cube, pair_as_wallthermostat,
                             pair_as_ShutterContact>>)} :
       \E commands \in {command_queue \o out.cmds} :
       \E enc \in {EncodeCommand(commands)} :
           /\ read_queue' = IF read_queue = <<>> THEN read_queue ELSE Tail(read_queue)
           /\ clock' = IF read_queue = <<>> THEN clock ELSE clock + 1
           /\ thermostat_states' = out.reg
           /\ trace' = trace \o out.log
           /\ IF out.exc # None
              THEN /\ command_queue' = commands
                   /\ send_queue' = send_queue
                   /\ engine_pc' = "crashed"
                   /\ engine_exc' = [site |-> "receive", exc |-> out.exc]
              ELSE /\ command_queue' = IF commands = <<>> THEN commands ELSE Tail(commands)
                   /\ send_queue' = send_queue \o enc.raw
                   /\ IF enc.exc # None
                      THEN /\ engine_pc' = "crashed"
                           /\ engine_exc' = [site |-> "command", exc |-> enc.exc]
                      ELSE /\ engine_pc' = "run"
                           /\ engine_exc' = engine_exc
    /\ UNCHANGED <<comVars, portVars, submits,
                   pair_as_cube, pair_as_wallthermostat, pair_as_ShutterContact,
                   zs_unanswered, banner_seen, mainVars, aired, lockVars,
                   codecVars>>

(***************************************************************************)
(* bin/moritz-server.py: commands put on the command queue from outside.   *)
(***************************************************************************)
\* the message set_temp builds for the thermostat receiver_id
SetTempMessage(receiver_id) ==
    [MoritzMessage("SetTemperatureMessage") EXCEPT
        !.counter = 185, !.sender_id = CUBE_ID, !.receiver_id = receiver_id,
        !.group_id = 0]

\* payloads a caller may pass: the one of set_temp and two that lack a field
SubmitPayloads ==
    {DictPayload("desired_temperature" :> 55 @@ "mode" :> "manual"),
     DictPayload("mode" :> "manual"),
     DictPayload("desired_temperature" :> 55)}

\* command_queue.put((msg, payload))
CommandSubmit(receiver_id, payload) ==
    /\ submits < MaxSubmits
    /\ submits' = submits + 1
    /\ command_queue' = Append(command_queue, Command(SetTempMessage(receiver_id), payload))
    /\ UNCHANGED <<comVars, portVars, read_queue, send_queue, engineVars, historyVars, mainVars,
                   aired, lockVars, codecVars>>

(***************************************************************************)
(* The engine statement by statement where it holds thermostat_states_lock, *)
(* and the request that reads the registry under the same lock.            *)
(***************************************************************************)
\* the payload respond_to_message merges for msg
MergedPayload(msg) ==
    IF msg.cls = "AckMessage" THEN AckDecodedPayload(msg.payload)
    ELSE ThermostatStateDecodedPayload(msg.payload)

\* respond_to_message reaches one of its with-blocks for the line and its
\* decoded_payload does not raise
UpdatesRegistry(line) ==
    LET decoded == decode_message(DropLast2(line))
        msg == decoded.msg
    IN  /\ decoded.err = None
        /\ IsHexString(Last2(line))
        /\ \/ /\ msg.cls = "ThermostatStateMessage"
              /\ MergedPayload(msg).err = None
           \/ /\ msg.cls = "AckMessage"
              /\ msg.receiver_id = CUBE_ID
              /\ MergedPayload(msg).err = None
              /\ "state" \in DOMAIN MergedPayload(msg).val
              /\ MergedPayload(msg).val["state"] = "ok"

\* run, the first try for a line that updates the registry, up to the first
\* statement of the with-block: the Ack branch publishes before it enters
RunLock ==
    /\ engine_pc = "run"
    /\ ~engine_stop
    /\ read_queue # <<>>
    /\ UpdatesRegistry(Head(read_queue))
    /\ registry_lock = "free"
    /\ \E msg \in {decode_message(DropLast2(Head(read_queue))).msg} :
           /\ handling' = [msg |-> msg,
                           signal_strenth |-> Int16(Last2(Head(read_queue))),
                           now |-> clock + 1]
           /\ thermostat_states' =
                  MergeStatus(thermostat_states, msg.sender_id, MergedPayload(msg).val)
           /\ trace' = trace \o <<Entry("decoded", clock + 1, msg, thermostat_states)>>
                  \o (IF msg.cls = "AckMessage"
                      THEN <<Entry("thermostatstate_received", clock + 1, msg,
                                   thermostat_states)>>
                      ELSE <<>>)
    /\ registry_lock' = "engine"
    /\ engine_pc' = "merge_time"
    /\ read_queue' = Tail(read_queue)
    /\ clock' = clock + 1
    /\ UNCHANGED <<comVars, portVars, send_queue, command_queue, submits, engine_exc,
                   pair_as_cube, pair_as_wallthermostat, pair_as_ShutterContact,
                   mainVars, zs_unanswered, banner_seen, aired, snapshot, queries,
                   codecVars>>

\* the second statement of the with-block
RunMergeTime ==
    /\ engine_pc = "merge_time"
    /\ thermostat_states' =
           MergeTime(thermostat_states, handling.msg.sender_id, handling.now)
    /\ engine_pc' = "merge_signal"
    /\ UNCHANGED <<comVars, portVars, queueVars, engine_exc, clock,
                   pair_as_cube, pair_as_wallthermostat, pair_as_ShutterContact,
                   mainVars, historyVars, aired, lockVars, codecVars>>

\* the third statement of the with-block and the release of the lock; the
\* ThermostatState branch then publishes; then the second try of run
RunMergeSignal ==
    /\ engine_pc = "merge_signal"
    /\ \E reg \in {MergeSignal(thermostat_states, handling.msg.sender_id,
                                handling.signal_strenth)} :
       \E enc \in {EncodeCommand(command_queue)} :
           /\ thermostat_states' = reg
           /\ trace' = trace
                  \o (IF handling.msg.cls = "ThermostatStateMessage"
                      THEN <<Entry("thermostatstate_received", handling.now,
                                   handling.msg, reg)>>
                      ELSE <<>>)
           /\ command_queue' = IF command_queue = <<>> THEN command_queue
                                ELSE Tail(command_queue)
           /\ send_queue' = send_queue \o enc.raw
           /\ IF enc.exc # None
              THEN /\ engine_pc' = "crashed"
                   /\ engine_exc' = [site |-> "command", exc |-> enc.exc]
              ELSE /\ engine_pc' = "run"
                   /\ engine_exc' = engine_exc
    /\ registry_lock' = "free"
    /\ handling' = NotHandling
    /\ UNCHANGED <<comVars, portVars, read_queue, submits, clock,
                   pair_as_cube, pair_as_wallthermostat, pair_as_ShutterContact,
                   mainVars, zs_unanswered, banner_seen, aired, snapshot, queries,
                   codecVars>>

\* run: an iteration that does not enter a with-block
RunOther ==
    /\ ~(read_queue # <<>> /\ UpdatesRegistry(Head(read_queue)))
    /\ Run

\* a request that reads the registry without taking the lock
StateQueryUnlocked ==
    /\ queries < MaxQueries
    /\ snapshot' = thermostat_states
    /\ queries' = queries + 1
    /\ UNCHANGED <<comVars, portVars, queueVars, engineVars, mainVars, historyVars,
                   aired, registry_lock, handling, codecVars>>

\* current_thermostat_states: take the lock, render the registry, release
StateQuery ==
    /\ queries < MaxQueries
    /\ registry_lock = "free"
    /\ snapshot' = thermostat_states
    /\ queries' = queries + 1
    /\ UNCHANGED <<comVars, portVars, queueVars, engineVars, mainVars, historyVars,
                   aired, registry_lock, handling, codecVars>>

\* run of the engine: the loop condition fails once stop_requested is set
EngineExit ==
    /\ engine_pc = "run"
    /\ engine_stop
    /\ engine_pc' = "stopped"
    /\ UNCHANGED <<engine_exc, thermostat_states, clock, pair_as_cube,
                   pair_as_wallthermostat, pair_as_ShutterContact,
                   comVars, portVars, queueVars, mainVars, historyVars, aired,
                   lockVars, codecVars>>

(***************************************************************************)
(* Shutdown: main calls message_thread.join() once the web server returns. *)
(***************************************************************************)
\* CULMessageThread.join calls CULComThread.join, which sets the stop flag of
\* the transport and waits for its thread
JoinTransport ==
    /\ main_pc = "serve"
    /\ com_stop' = TRUE
    /\ main_pc' = "join_transport"
    /\ UNCHANGED <<com_pc, round, attempt, loops, cul_version, pending_budget,
                   pending_message, portVars, queueVars, engineVars, engine_stop,
                   historyVars, aired, lockVars, codecVars>>

\* the transport thread has ended: CULComThread.join returns and
\* CULMessageThread.join sets the stop flag of the engine and waits for it
JoinEngine ==
    /\ main_pc = "join_transport"
    /\ com_pc = "done"
    /\ engine_stop' = TRUE
    /\ main_pc' = "join_engine"
    /\ UNCHANGED <<comVars, portVars, queueVars, engineVars, historyVars,
                   aired, lockVars, codecVars>>

\* the engine thread has ended, by leaving its loop or by an exception
Joined ==
    /\ main_pc = "join_engine"
    /\ engine_pc \in {"stopped", "crashed"}
    /\ main_pc' = "exited"
    /\ UNCHANGED <<comVars, portVars, queueVars, engineVars, engine_stop, historyVars,
                   aired, lockVars, codecVars>>

\* The transceiver of Spec answers the first "V" after the port is opened or
\* none of that round
PromptBanner == {1}

Next ==
    \/ DeviceBanner(PromptBanner)
    \/ \E n \in BudgetReports : DeviceBudget(n)
    \/ \E line \in InboundLines : DeviceFrame(line)
    \/ Open
    \/ SendVersionQuery
    \/ ReadVersion
    \/ Setup
    \/ SetupRead
    \/ LoopHead
    \/ BudgetRead
    \/ Drain
    \/ Send
    \/ Run
    \/ \E payload \in SubmitPayloads : CommandSubmit(THERMOSTAT_A, payload)

Spec == Init /\ [][Next]_vars

\* The transport alone with a transceiver that answers any "V" or none: the
\* initialization and the exit of run after it failed
AnyAttempt == 1..VersionAttempts

NextInit ==
    \/ DeviceBanner(AnyAttempt)
    \/ Open
    \/ SendVersionQuery
    \/ ReadVersion
    \/ Setup
    \/ SetupRead
    \/ LoopHead

SpecInit == Init /\ [][NextInit]_vars

\* The receiving side alone, under a burst of radio frames: no commands are
\* submitted, and the frames are of the kinds the engine handles or drops
StreamLines == {TimeRequest, StateReport, AckOk, UnknownType}

NextStream ==
    \/ DeviceBanner(PromptBanner)
    \/ \E n \in BudgetReports : DeviceBudget(n)
    \/ \E line \in StreamLines : DeviceFrameWithin(line, MaxBurst)
    \/ Open
    \/ SendVersionQuery
    \/ ReadVersion
    \/ Setup
    \/ SetupRead
    \/ LoopHead
    \/ BudgetRead
    \/ Drain
    \/ Send
    \/ Run

SpecStream == Init /\ [][NextStream]_vars

\* The registry under reports of one thermostat, an Ack of another, a frame
\* the engine drops, and requests for the registry
StateReportLater ==
    RadioFrame(96, 99, 4, THERMOSTAT_B, 0, 0,
               <<"1", "A", "6", "4", "2", "A", "0", "0", "D", "2">>, <<"E", "1">>)

RegistryLines == {StateReport, StateReportLater, AckOk, UnknownType}

NextRegistry ==
    \/ DeviceBanner(PromptBanner)
    \/ \E n \in BudgetReports : DeviceBudget(n)
    \/ \E line \in RegistryLines : DeviceFrameWithin(line, MaxBurst)
    \/ Open
    \/ SendVersionQuery
    \/ ReadVersion
    \/ Setup
    \/ SetupRead
    \/ LoopHead
    \/ BudgetRead
    \/ Drain
    \/ Send
    \/ RunLock
    \/ RunMergeTime
    \/ RunMergeSignal
    \/ RunOther
    \/ StateQuery

SpecRegistry == Init /\ [][NextRegistry]_vars

\* the application chooses as which devices the engine pairs: the three
\* attributes are public, __init__ presets them, the handler of PairPing
\* reads them.  They are set before the threads are started
PairRoles == {<<FALSE, FALSE, FALSE>>, <<FALSE, TRUE, FALSE>>, <<FALSE, FALSE, TRUE>>}

SetPairRoles(roles) ==
    /\ com_pc = "open"
    /\ <<pair_as_cube, pair_as_wallthermostat, pair_as_ShutterContact>>
           = <<TRUE, FALSE, FALSE>>
    /\ pair_as_cube' = roles[1]
    /\ pair_as_wallthermostat' = roles[2]
    /\ pair_as_ShutterContact' = roles[3]
    /\ UNCHANGED <<comVars, portVars, queueVars, engine_pc, engine_exc,
                   thermostat_states, clock, mainVars, historyVars, aired, lockVars,
                   codecVars>>

\* The engine under one frame of each kind its handlers tell apart
WALLTHERMO_ID == 1193047       \* 0x123457
AckOkNoStatus ==
    RadioFrame(2, 187, 2, THERMOSTAT_A, CUBE_ID, 0, <<"0", "1">>, <<"E", "8">>)
AckInvalid ==
    RadioFrame(2, 188, 2, THERMOSTAT_A, CUBE_ID, 0,
               <<"8", "1", "1", "9", "0", "0", "0", "B">>, <<"E", "8">>)
AckElsewhere ==
    RadioFrame(2, 189, 2, THERMOSTAT_A, WALLTHERMO_ID, 0,
               <<"0", "1", "1", "9", "0", "0", "0", "B">>, <<"E", "8">>)
TimeRequestElsewhere ==
    RadioFrame(3, 2, 10, THERMOSTAT_A, WALLTHERMO_ID, 3, <<>>, <<"F", "0">>)
TimeAnnounce ==
    RadioFrame(3, 3, 4, THERMOSTAT_A, CUBE_ID, 3,
               <<"0", "E", "0", "1", "0", "2", "E", "1", "1", "7">>, <<"F", "0">>)
PairPingElsewhere ==
    RadioFrame(0, 0, 4, THERMOSTAT_B, WALLTHERMO_ID, 0,
               <<"1", "0", "0", "1", "A", "0", "4", "B", "4", "5">>, <<"E", "0">>)

\* frames of classes respond_to_message has no branch for
WallThermostatReport ==
    RadioFrame(112, 4, 4, WALLTHERMO_ID, 0, 0, <<"1", "9", "0", "0", "2", "0">>, <<"F", "1">>)
SetTemperatureHeard ==
    RadioFrame(64, 185, 0, WALLTHERMO_ID, THERMOSTAT_A, 0, <<"4", "B">>, <<"F", "1">>)
PairPongHeard ==
    RadioFrame(1, 1, 0, WALLTHERMO_ID, THERMOSTAT_A, 0, <<"0", "0">>, <<"F", "1">>)

HandlerLines ==
    {StateReport, AckOk, AckOkNoStatus, AckInvalid, AckElsewhere,
     TimeRequest, TimeRequestElsewhere, TimeAnnounce,
     PairPingBroadcast, PairPingToCube, PairPingElsewhere,
     WallThermostatReport, SetTemperatureHeard, PairPongHeard, AckUnknownState}

NextHandlers ==
    \/ \E roles \in PairRoles : SetPairRoles(roles)
    \/ DeviceBanner(PromptBanner)
    \/ \E n \in BudgetReports : DeviceBudget(n)
    \/ \E line \in HandlerLines : DeviceFrame(line)
    \/ Open
    \/ SendVersionQuery
    \/ ReadVersion
    \/ Setup
    \/ SetupRead
    \/ LoopHead
    \/ BudgetRead
    \/ Drain
    \/ Send
    \/ Run

SpecHandlers == Init /\ [][NextHandlers]_vars

\* The program with its shutdown
NextShutdown ==
    \/ Next
    \/ EngineExit
    \/ JoinTransport
    \/ JoinEngine
    \/ Joined

SpecShutdown == Init /\ [][NextShutdown]_vars

(***************************************************************************)
(* The message classes on their own: decoded_payload of a ThermostatState  *)
(* and of an Ack for every value of the status byte, and encode_message of *)
(* a TimeInformationMessage for every kind of payload a caller can pass.   *)
(***************************************************************************)
StatusBytes == 0 .. 255

\* a payload whose first byte is status; valve position and desired
\* temperature are those of test_thermostat_state
StatusPayload(status) == ZFill(PyHex(status), 2) \o <<"0", "0", "2", "0">>

\* datetimes at the corners of the calendar, and the one of test_set_timeinformation
DateTimes ==
    [year : {2000, 2014}, month : {1, 12}, day : {1, 31}, hour : {0, 23},
     minute : {0, 59}, second : {0, 59}] \cup {Now(23)}

\* encode_message() without argument passes its default, the empty dict
TimePayloads ==
    {NonePayload, DictPayload(EmptyDict)} \cup {DatePayload(dt) : dt \in DateTimes}

\* the message of test_set_timeinformation before encode_message is called
TimeMessage ==
    [MoritzMessage("TimeInformationMessage") EXCEPT
        !.counter = 2, !.sender_id = 1193046, !.receiver_id = 917868, !.group_id = 0]

\* setpoints in tenths of a degree: below 4.5, above 30.5, on and off the half degree
Setpoints ==
    {-50, 0, 44, 45, 46, 47, 48, 50, 55, 203, 205, 207, 208, 210, 300, 302, 303,
     304, 305, 306, 310, 315, 320, 635, 640, 1000}

\* the message of test_encoding_with_payload before encode_message is called
SetTemperatureSample ==
    [MoritzMessage("SetTemperatureMessage") EXCEPT
        !.counter = 185, !.sender_id = 1193046, !.receiver_id = 734548, !.group_id = 0]

\* date-times over every month, with the ends of each field's range
CalendarDateTimes ==
    {dt \in [year : {2000, 2014, 2255}, month : 1 .. 12, day : {1, 28, 29, 30, 31},
             hour : {0, 2, 23}, minute : {0, 33, 59}, second : {0, 23, 59}] :
        IsDateTime(dt)}

\* headers at the ends of the field widths, and those of the tests
HeaderCounters == {0, 185, 255}
HeaderFlags == {0, 4, 255}
HeaderGroups == {0, 255}
HeaderSenders == {0, 1193046, 16777215}
HeaderReceivers == {0, 734548, 16777215}

\* payloads of the classes that send self.payload as it is
OpaquePayloads ==
    {<<>>, <<"4", "B">>, <<"1", "9", "0", "0", "2", "0", "0", "0", "C", "A">>}

\* the arguments encode_payload of cls takes without raising
ValidPayloads(cls) ==
    CASE cls = "PairPongMessage" ->
             {DictPayload("devicetype" :> d) : d \in {"Cube", "PushButton"}}
      [] cls = "TimeInformationMessage" -> {NonePayload, DatePayload(Now(23))}
      [] cls = "SetTemperatureMessage" ->
             {DictPayload("desired_temperature" :> 55 @@ "mode" :> "manual")}
      [] OTHER -> {DictPayload(EmptyDict)}

\* a message object of class cls before encode_message is called; the classes
\* with an encode_payload get their payload from the argument
Headers(cls) ==
    {[cls |-> cls, counter |-> c, flag |-> f, sender_id |-> snd, receiver_id |-> rcv,
      group_id |-> g, payload |-> p] :
        c \in HeaderCounters, f \in HeaderFlags, snd \in HeaderSenders,
        rcv \in HeaderReceivers, g \in HeaderGroups,
        p \in IF HasEncodePayload(cls) THEN {<<>>} ELSE OpaquePayloads}

MessageClasses == {MORITZ_MESSAGE_IDS[t] : t \in DOMAIN MORITZ_MESSAGE_IDS}

\* what encode_message is called on and with before the result is decoded again
RoundTripInputs ==
    {[kind |-> "RoundTrip", msg |-> SetTemperatureSample,
      arg |-> DictPayload("desired_temperature" :> t @@ "mode" :> MODE_IDS[m])] :
        t \in Setpoints, m \in 1 .. Len(MODE_IDS)}
    \cup {[kind |-> "RoundTrip", msg |-> TimeMessage, arg |-> DatePayload(dt)] :
            dt \in CalendarDateTimes}
    \cup UNION {{[kind |-> "RoundTrip", msg |-> m, arg |-> p] :
                    m \in Headers(cls), p \in ValidPayloads(cls)} : cls \in MessageClasses}

CodecInputs ==
    {[kind |-> "ThermostatState", status |-> b,
      payload |-> StatusPayload(b) \o <<"0", "0", "C", "A">>] : b \in StatusBytes}
    \cup {[kind |-> "Ack", status |-> b,
           payload |-> <<"0", "1">> \o StatusPayload(b)] : b \in StatusBytes}
    \cup {[kind |-> "TimeInformation", payload |-> p] : p \in TimePayloads}
    \cup RoundTripInputs

InitCodec == InitProgram /\ codec_in \in CodecInputs /\ codec_out = NotCalled

\* ThermostatStateMessage.decoded_payload
DecodeThermostatState ==
    /\ codec_in.kind = "ThermostatState" /\ codec_out = NotCalled
    /\ codec_out' = [kind |-> "decoded",
                     result |-> ThermostatStateDecodedPayload(codec_in.payload)]
    /\ UNCHANGED <<comVars, portVars, queueVars, engineVars, mainVars, historyVars,
                   aired, lockVars, codec_in>>

\* AckMessage.decoded_payload
DecodeAck ==
    /\ codec_in.kind = "Ack" /\ codec_out = NotCalled
    /\ codec_out' = [kind |-> "decoded", result |-> AckDecodedPayload(codec_in.payload)]
    /\ UNCHANGED <<comVars, portVars, queueVars, engineVars, mainVars, historyVars,
                   aired, lockVars, codec_in>>

\* TimeInformationMessage.encode_message
EncodeTimeInformation ==
    /\ codec_in.kind = "TimeInformation" /\ codec_out = NotCalled
    /\ codec_out' = [kind |-> "encoded",
                     result |-> encode_message(TimeMessage, codec_in.payload)]
    /\ UNCHANGED <<comVars, portVars, queueVars, engineVars, mainVars, historyVars,
                   aired, lockVars, codec_in>>

\* the message object after encode_message has set its payload and flag
Encoded(m, payload) ==
    LET m1 == IF HasEncodePayload(m.cls)
              THEN [m EXCEPT !.payload = encode_payload(m.cls, payload).hex]
              ELSE m
    IN  [m1 EXCEPT !.flag = encode_flag(m1)]

\* msg.encode_message(payload), then MoritzMessage.decode_message on the string
\* it returned, then decoded_payload of the classes whose encode_payload takes
\* what decoded_payload returns
RoundTrip ==
    /\ codec_in.kind = "RoundTrip" /\ codec_out = NotCalled
    /\ \E enc \in {encode_message(codec_in.msg, codec_in.arg)} :
       \E dec \in {IF enc.err = None THEN decode_message(enc.raw)
                   ELSE [err |-> enc.err, msg |-> MoritzMessage(None)]} :
           codec_out' = [kind |-> "roundtrip", raw |-> enc.raw, err |-> dec.err,
                         sent |-> Encoded(codec_in.msg, codec_in.arg),
                         msg |-> dec.msg,
                         decoded |-> IF dec.err = None /\ HasEncodePayload(dec.msg.cls)
                                     THEN decoded_payload(dec.msg)
                                     ELSE [err |-> "not read", val |-> EmptyDict]]
    /\ UNCHANGED <<comVars, portVars, queueVars, engineVars, mainVars, historyVars,
                   aired, lockVars, codec_in>>

NextCodec == DecodeThermostatState \/ DecodeAck \/ EncodeTimeInformation \/ RoundTrip

SpecCodec == InitCodec /\ [][NextCodec]_vars

(***************************************************************************)
(* Both workers for as long as they run, with a transceiver that answers   *)
(* every query before the transport reads, and generously.                 *)
(***************************************************************************)
\* a budget report above 10 x the length of every frame the engine encodes
GenerousReports == {250}
LiveLines == {TimeRequest, PairPingToCube}

\* _get_cul_ver and the budget refresh, the transceiver's answer being there
ReadVersionAnswered == "V" \notin dev_pending /\ ReadVersion
BudgetReadAnswered == "X" \notin dev_pending /\ BudgetRead

\* run: the loop condition and the budget request, as often as the loop goes round
LoopHeadAgain ==
    /\ com_pc = "loop"
    /\ IF com_stop
       THEN /\ com_pc' = "done"
            /\ UNCHANGED <<port_out, dev_pending>>
       ELSE IF pending_budget = 0
            THEN /\ Written(<<<<"X">>>>)
                 /\ com_pc' = "budget_read"
            ELSE /\ com_pc' = "drain"
                 /\ UNCHANGED <<port_out, dev_pending>>
    /\ UNCHANGED <<round, attempt, loops, cul_version, pending_budget, pending_message,
                   com_stop, port_in, delivered, port_open, queueVars, engineVars,
                   historyVars, mainVars, aired, lockVars, codecVars>>

Transceiver ==
    \/ DeviceBanner(PromptBanner)
    \/ \E n \in GenerousReports : DeviceBudget(n)

Transport ==
    \/ Open
    \/ SendVersionQuery
    \/ ReadVersionAnswered
    \/ Setup
    \/ SetupRead
    \/ LoopHeadAgain
    \/ BudgetReadAnswered
    \/ Drain
    \/ Send

NextLive ==
    \/ Transceiver
    \/ Transport
    \/ Run
    \/ \E line \in LiveLines : DeviceFrame(line)
    \/ \E payload \in SubmitPayloads : CommandSubmit(THERMOSTAT_A, payload)

\* what an iteration of the engine's run does whenever it finds something in
\* a queue: it takes the next line, or else the next command
EngineReceives ==
    /\ engine_pc = "run" /\ ~engine_stop /\ read_queue # <<>>
    /\ clock' = clock + 1
EngineEncodes ==
    /\ engine_pc = "run" /\ ~engine_stop /\ read_queue = <<>> /\ command_queue # <<>>
    /\ command_queue' = Tail(command_queue)

\* both threads are scheduled again and again, and the transceiver answers;
\* the steps of Run are told by what they do to the clock and the command queue
SpecLive ==
    /\ Init /\ [][NextLive]_vars
    /\ WF_vars(Transceiver) /\ WF_vars(Transport)
    /\ WF_clock(EngineReceives) /\ WF_command_queue(EngineEncodes)

(***************************************************************************)
(* Properties.                                                             *)
(***************************************************************************)
IsZs(command) == StartsWith(command, <<"Z", "s">>)
Kinds(kind) == {i \in 1..Len(trace) : trace[i].kind = kind}

\* C1: a line that fails to decode (unknown type, wrong length, malformed hex,
\* a payload too short for its class, an Ack whose first byte is neither 01
\* nor 81) is dropped and the engine keeps running: no exception raised while
\* a received line is handled ever ends run.
C1_DecodeErrorsNeverHaltEngine ==
    ~(engine_pc = "crashed" /\ engine_exc.site = "receive")

\* C2: from the moment a "Zs" command is written until the next "21  " line is
\* read, the cached budget is 0.
C2_BudgetZeroUntilReport ==
    zs_unanswered => pending_budget = 0

\* C2: a frame has been written, the next budget query has been sent and its
\* for-loop has ended without a report
C2_Witness ==
    /\ zs_unanswered
    /\ com_pc = "drain"
    /\ \E i \in 1..Len(port_out) : IsZs(port_out[i])

\* the step of the transport that looks at the staged frame
SendStep == com_pc = "send" /\ com_pc' = "loop" /\ Staged(pending_message, send_queue) # <<>>
Cost == 10 * Len(Staged(pending_message, send_queue))
FrameWritten ==
    /\ port_out' = Append(port_out, Staged(pending_message, send_queue))
    /\ pending_message' = <<>>

\* C3, as claimed: in a loop iteration with a staged frame, the frame is
\* written verbatim and the slot cleared if the cached budget is >= 10 x its
\* length, and it is never written when the budget is below that.
C3_WrittenAtOrAboveCost ==
    [][SendStep => /\ (pending_budget >= Cost => FrameWritten)
                   /\ (port_out' # port_out => pending_budget >= Cost)]_vars

\* C3, amended: in a loop iteration with a staged frame, the frame is written
\* verbatim and the slot cleared if the cached budget is > 10 x its length;
\* otherwise nothing is written, the frame stays staged and the cached budget
\* becomes 0.
C3_WrittenAboveCost ==
    [][SendStep => IF pending_budget > Cost
                   THEN FrameWritten
                   ELSE /\ port_out' = port_out
                        /\ pending_message' = Staged(pending_message, send_queue)
                        /\ pending_budget' = 0]_vars

\* C3: the transport has just written a staged frame and cleared the slot
C3_Witness ==
    /\ com_pc = "loop"
    /\ port_out # <<>> /\ IsZs(port_out[Len(port_out)])
    /\ pending_message = <<>>

\* the fields of msg that decoded_payload yields, as the registry entry has them
Reflects(entry, msg) ==
    LET decoded == IF msg.cls = "AckMessage" THEN AckDecodedPayload(msg.payload)
                   ELSE ThermostatStateDecodedPayload(msg.payload)
    IN  /\ decoded.err = None
        /\ \A k \in DOMAIN decoded.val : k \in DOMAIN entry /\ entry[k] = decoded.val[k]

\* C4: when thermostatstate_received is published for a message, the registry
\* entry of its sender already holds that message's fields, its last_updated
\* and a signal strength.
C4_EventAfterRegistryUpdate ==
    \A i \in Kinds("thermostatstate_received") :
        LET e == trace[i]
        IN  /\ e.msg.sender_id \in DOMAIN e.reg
            /\ {"last_updated", "signal_strenth"} \subseteq DOMAIN e.reg[e.msg.sender_id]
            /\ e.reg[e.msg.sender_id]["last_updated"] = e.id
            /\ Reflects(e.reg[e.msg.sender_id], e.msg)

\* header and payload of msg decode
DecodesFully(msg) ==
    CASE msg.cls = "ThermostatStateMessage" ->
             ThermostatStateDecodedPayload(msg.payload).err = None
      [] msg.cls = "AckMessage" -> AckDecodedPayload(msg.payload).err = None
      [] OTHER -> TRUE

\* C5: every key of the device registry is the sender_id of a received
\* message whose header and payload decoded; a message whose payload fails
\* to decode adds no key.
C5_KeysFromDecodedMessages ==
    \A k \in DOMAIN thermostat_states :
        \E i \in Kinds("decoded") :
            trace[i].msg.sender_id = k /\ DecodesFully(trace[i].msg)

\* the engine takes a PairPing that is broadcast with a pair role set, or
\* addressed to the cube
HandlesAnswerablePairPing ==
    /\ engine_pc = "run" /\ read_queue # <<>> /\ clock' = clock + 1
    /\ LET d == decode_message(DropLast2(Head(read_queue)))
       IN  /\ d.err = None /\ IsHexString(Last2(Head(read_queue)))
           /\ d.msg.cls = "PairPingMessage"
           /\ \/ d.msg.receiver_id = CUBE_ID
              \/ /\ d.msg.receiver_id = 0
                 /\ (pair_as_cube \/ pair_as_wallthermostat \/ pair_as_ShutterContact)

\* what the step added to the history
Added == SubSeq(trace', Len(trace) + 1, Len(trace'))
AddedKind(kind, cls) ==
    {i \in 1..Len(Added) : Added[i].kind = kind /\ Added[i].msg.cls = cls}

\* C6: handling a PairPing that is broadcast with a pair role set, or
\* addressed to the cube, puts one PairPong on the command queue and
\* publishes one device_pair_accepted if the cached budget of the transport
\* is >= 2000 at that moment, and does neither if it is lower.
C6_PairAnswerIffBudget ==
    [][HandlesAnswerablePairPing =>
          IF pending_budget >= 2000
          THEN /\ Cardinality(AddedKind("put", "PairPongMessage")) = 1
               /\ Cardinality(AddedKind("device_pair_accepted", "PairPongMessage")) = 1
               /\ Len(command_queue') + Len(send_queue')
                      = Len(command_queue) + Len(send_queue) + 1
                        - (IF engine_pc' = "crashed" THEN 1 ELSE 0)
          ELSE /\ AddedKind("put", "PairPongMessage") = {}
               /\ AddedKind("device_pair_accepted", "PairPongMessage") = {}
               /\ Len(command_queue') + Len(send_queue')
                      <= Len(command_queue) + Len(send_queue)]_vars

\* C6: a PairPing addressed to the cube has been accepted
C6_Witness ==
    \E i \in Kinds("device_pair_accepted") :
        \E j \in Kinds("device_pair_request") :
            /\ trace[j].id = trace[i].id
            /\ trace[j].msg.receiver_id = CUBE_ID

\* C7: every device_pair_accepted comes after a device_pair_request of the
\* same PairPing and after the put of its PairPong on the command queue.
C7_AcceptedAfterRequestAndPut ==
    \A i \in Kinds("device_pair_accepted") :
        \E j \in Kinds("put") :
            /\ j < i
            /\ trace[j].id = trace[i].id /\ trace[j].msg = trace[i].msg
            /\ \E k \in Kinds("device_pair_request") :
                   k < j /\ trace[k].id = trace[i].id

\* C7: a broadcast PairPing has been requested, answered and accepted
C7_Witness ==
    \E i \in Kinds("device_pair_accepted") :
        \E k \in Kinds("device_pair_request") :
            /\ k < i /\ trace[k].id = trace[i].id
            /\ trace[k].msg.receiver_id = 0

\* C8: every PairPong the engine puts on the command queue has the cube id
\* as sender, the sender of the triggering PairPing as receiver, counter 1
\* and the group of the PairPing, and comes after that PairPing was decoded.
C8_PairPongAnswersItsPairPing ==
    \A j \in Kinds("put") :
        trace[j].msg.cls = "PairPongMessage" =>
            \E k \in Kinds("decoded") :
                /\ k < j /\ trace[k].id = trace[j].id
                /\ trace[k].msg.cls = "PairPingMessage"
                /\ trace[j].msg.sender_id = CUBE_ID
                /\ trace[j].msg.receiver_id = trace[k].msg.sender_id
                /\ trace[j].msg.counter = 1
                /\ trace[j].msg.group_id = trace[k].msg.group_id

\* C8: the PairPong for a PairPing of group 2 has been encoded for sending
C8_Witness ==
    /\ \E j \in Kinds("put") :
           trace[j].msg.cls = "PairPongMessage" /\ trace[j].msg.group_id = 2
    /\ \E i \in 1..Len(send_queue) :
           decode_message(send_queue[i]).msg.cls = "PairPongMessage"

\* C9: initialization fails (stop flag set, no X21, Zr, T01, no main loop)
\* only if none of the 20 attempts obtained a version banner.
C9_InitFailsOnlyWithoutBanner ==
    com_stop => ~banner_seen

\* C10: a command whose payload lacks a field its class requires is not
\* added to the command queue.
C10_NoBrokenPayloadQueued ==
    \A i \in 1..Len(command_queue) :
        encode_message(command_queue[i].msg, command_queue[i].payload).err
            # "MissingPayloadParameterError"

\* C11: after shutdown is requested the transport is stopped and joined
\* before the engine is, and once the transport has left its loop the serial
\* port is closed.
C11_JoinedInOrderAndPortClosed ==
    /\ main_pc \in {"join_engine", "exited"} => com_pc = "done"
    /\ engine_stop => com_stop
    /\ com_pc = "done" => ~port_open

\* the frames on their way, oldest first: written to the port, staged in the
\* transport, waiting in the send queue, and the entries of the command queue
\* as encode_message renders them
Rendered(raw) == [err |-> None, raw |-> raw]
IsPrefix(s, t) == Len(s) <= Len(t) /\ SubSeq(t, 1, Len(s)) = s
Pipeline(out, message, frames, commands) ==
    LET written == SelectSeq(out, IsZs)
        staged == IF message = <<>> THEN <<>> ELSE <<message>>
        onway == written \o staged \o frames
    IN  [i \in 1..Len(onway) |-> Rendered(onway[i])]
        \o [i \in 1..Len(commands) |->
               encode_message(commands[i].msg, commands[i].payload)]
PutsOfStep ==
    Cardinality({i \in 1..Len(Added) : Added[i].kind = "put"}) + (submits' - submits)

\* C12: frames are written in the order in which their (message, payload)
\* pairs were put on the command queue: no step of the engine or of the
\* transport reorders, duplicates or drops an entry on its way from the
\* command queue to the port; the entries put by the step join at the end.
C12_CommandsKeepOrder ==
    [][\E before \in {Pipeline(port_out, pending_message, send_queue, command_queue)} :
       \E after \in {Pipeline(port_out', pending_message', send_queue', command_queue')} :
           /\ IsPrefix(before, after)
           /\ Len(after) = Len(before) + PutsOfStep]_vars

IsFrameLine(line) == StartsWith(line, <<"Z">>)

\* C13: the engine handles inbound frames in the order in which their lines
\* were completed on the port: the lines waiting in the receive queue and in
\* the port are the frames printed after those the engine has taken, in
\* order; the i-th line decoded and dispatched is the i-th frame printed;
\* and only lines starting with "Z" are in the receive queue.
C13_InboundInOrder ==
    /\ \A i \in 1..Len(read_queue) : IsFrameLine(read_queue[i])
    /\ clock <= Len(aired)
    /\ read_queue \o SelectSeq(port_in, IsFrameLine)
           = SubSeq(aired, clock + 1, Len(aired))
    /\ \A i \in Kinds("decoded") :
           /\ trace[i].id \in 1..clock
           /\ trace[i].msg = decode_message(DropLast2(aired[trace[i].id])).msg
           /\ \A j \in Kinds("decoded") : i < j => trace[i].id < trace[j].id

\* C13: two different frames were printed and both have been dispatched
C13_Witness ==
    /\ Len(aired) = 2 /\ aired[1] # aired[2]
    /\ \E i, j \in Kinds("decoded") : trace[i].id = 1 /\ trace[j].id = 2

\* the entry of device k holds the status fields, the time and the signal
\* strength of one and the same frame of that device
OfOneFrame(entry, k) ==
    /\ {"last_updated", "signal_strenth"} \subseteq DOMAIN entry
    /\ entry["last_updated"] \in 1..Len(aired)
    /\ LET line == aired[entry["last_updated"]]
           msg == decode_message(DropLast2(line)).msg
       IN  /\ msg.sender_id = k
           /\ entry["signal_strenth"] = Int16(Last2(line))
           /\ Reflects(entry, msg)

\* C14: the engine writes the registry only while it holds the registry
\* mutex, and what a StateQuery returns never has an entry whose status fields
\* are those of one message while last_updated or the signal strength are
\* missing or those of another.
C14_QueryNeverTorn ==
    /\ registry_lock = "engine" <=> engine_pc \in {"merge_time", "merge_signal"}
    /\ \A k \in DOMAIN snapshot : OfOneFrame(snapshot[k], k)

\* C14: a query returned the entry of a device after its second report was
\* merged over the first
C14_Witness ==
    /\ queries > 0
    /\ THERMOSTAT_B \in DOMAIN snapshot
    /\ snapshot[THERMOSTAT_B]["last_updated"] = 2
    /\ decode_message(DropLast2(aired[1])).msg.sender_id = THERMOSTAT_B
    /\ aired[1] # aired[2]

\* the history entries of the given kind made while line id was handled
KindsOf(kind, id) == {i \in Kinds(kind) : trace[i].id = id}
IsOkAckToCube(msg) ==
    /\ msg.cls = "AckMessage"
    /\ msg.receiver_id = CUBE_ID
    /\ StartsWith(msg.payload, <<"0", "1">>)
BearsStatus(msg) == Len(msg.payload) = 8

\* C15: thermostatstate_received is published for every inbound
\* ThermostatState, and for an inbound Ack exactly when it is addressed to
\* the cube, has state ok and bears a thermostat status.
C15_EventForStatesAndStatusAcks ==
    /\ \A i \in Kinds("decoded") :
           \/ trace[i].msg.cls = "ThermostatStateMessage"
           \/ IsOkAckToCube(trace[i].msg) /\ BearsStatus(trace[i].msg)
           => KindsOf("thermostatstate_received", trace[i].id) # {}
    /\ \A i \in Kinds("thermostatstate_received") :
           trace[i].msg.cls = "AckMessage"
           => IsOkAckToCube(trace[i].msg) /\ BearsStatus(trace[i].msg)

StatusFields ==
    {"mode", "desired_temperature", "valve_position", "dstsetting", "langateway",
     "is_locked", "rferror", "battery_low"}

\* C16: every entry of the device registry holds last_updated and the signal
\* strength together with the decoded status fields of the latest message
\* merged for that device.
C16_EntriesComplete ==
    \A k \in DOMAIN thermostat_states :
        /\ StatusFields \subseteq DOMAIN thermostat_states[k]
        /\ OfOneFrame(thermostat_states[k], k)

\* the engine takes a TimeInformation with empty payload addressed to the cube
HandlesTimeRequest ==
    /\ engine_pc = "run" /\ read_queue # <<>> /\ clock' = clock + 1
    /\ LET d == decode_message(DropLast2(Head(read_queue)))
       IN  /\ d.err = None /\ IsHexString(Last2(Head(read_queue)))
           /\ d.msg.cls = "TimeInformationMessage"
           /\ d.msg.payload = <<>>
           /\ d.msg.receiver_id = CUBE_ID

\* the answer to the time request the engine is taking
TimeAnswer ==
    LET request == decode_message(DropLast2(Head(read_queue))).msg
    IN  [MoritzMessage("TimeInformationMessage") EXCEPT
            !.counter = 1, !.sender_id = CUBE_ID,
            !.receiver_id = request.sender_id, !.group_id = request.group_id]

\* C17: handling a TimeInformation with empty payload addressed to the cube
\* puts exactly one TimeInformation on the command queue, from the cube to
\* the requester, in its group, with the current time as payload, whatever
\* the cached budget of the transport is.
C17_TimeRequestAlwaysAnswered ==
    [][HandlesTimeRequest =>
          \E before \in {Pipeline(port_out, pending_message, send_queue,
                                   command_queue)} :
          \E after \in {Pipeline(port_out', pending_message', send_queue',
                                  command_queue')} :
              /\ after = before
                     \o <<encode_message(TimeAnswer, DatePayload(Now(clock + 1)))>>
              /\ Cardinality(AddedKind("put", "TimeInformationMessage")) = 1
              /\ \A i \in AddedKind("put", "TimeInformationMessage") :
                     Added[i].msg = TimeAnswer]_vars

\* C17: a time request has been answered while the cached budget was 0: the
\* budget is 0, and no frame was written or held back that could have
\* zeroed it
C17_Witness ==
    /\ \E i \in Kinds("put") : trace[i].msg.cls = "TimeInformationMessage"
    /\ pending_budget = 0
    /\ pending_message = <<>>
    /\ \A i \in 1..Len(port_out) : ~IsZs(port_out[i])
    /\ \E i \in 1..Len(send_queue) :
           decode_message(send_queue[i]).msg.cls = "TimeInformationMessage"

\* the engine takes a PairPing
HandlesPairPing ==
    /\ engine_pc = "run" /\ read_queue # <<>> /\ clock' = clock + 1
    /\ LET d == decode_message(DropLast2(Head(read_queue)))
       IN  /\ d.err = None /\ IsHexString(Last2(Head(read_queue)))
           /\ d.msg.cls = "PairPingMessage"
PairPingTaken == decode_message(DropLast2(Head(read_queue))).msg
NoPairRole == ~(pair_as_cube \/ pair_as_wallthermostat \/ pair_as_ShutterContact)

\* C18: handling a PairPing publishes device_pair_request for it before
\* anything else is done about it; if the PairPing is broadcast while no pair
\* role is set, or addressed to an id other than 0 and the cube id, nothing
\* else is done: no PairPong is put and no device_pair_accepted published.
C18_PairRequestThenIgnore ==
    [][HandlesPairPing =>
          /\ Len(Added) >= 2
          /\ Added[1] = Entry("decoded", clock + 1, PairPingTaken, thermostat_states)
          /\ Added[2] = Entry("device_pair_request", clock + 1, PairPingTaken,
                              thermostat_states)
          /\ \/ PairPingTaken.receiver_id = 0 /\ NoPairRole
             \/ PairPingTaken.receiver_id \notin {0, CUBE_ID}
             => /\ Len(Added) = 2
                /\ Pipeline(port_out', pending_message', send_queue', command_queue')
                       = Pipeline(port_out, pending_message, send_queue, command_queue)]_vars

\* C18: a broadcast PairPing was ignored with no pair role set, and a budget
\* that allows an answer is cached
C18_Witness ==
    /\ NoPairRole
    /\ pending_budget >= PairBudget
    /\ \E i \in Kinds("device_pair_request") : trace[i].msg.receiver_id = 0
    /\ Kinds("put") = {} /\ Kinds("device_pair_accepted") = {}


(***************************************************************************)
(* The message classes on their own (SpecCodec).                           *)
(***************************************************************************)
\* the flag and the payload in a string encode_message returned: "Zs", length,
\* counter, flag, type, sender, receiver, group, payload
EncodedFlag(raw) == FromHex(Slice(raw, 6, 8))[1]
EncodedPayload(raw) == SliceFrom(raw, 24)

\* C19: encoding a TimeInformation message with no payload, None or the empty
\* dict that encode_message defaults to, returns the request form, an empty
\* payload under flag 0x0A; encoding it with a datetime returns a payload of
\* 5 bytes under flag 0x04
C19_TimeInformationEncodings ==
    (codec_in.kind = "TimeInformation" /\ codec_out # NotCalled) =>
        /\ codec_out.result.err = None
        /\ IF codec_in.payload.kind = "datetime"
           THEN /\ Len(EncodedPayload(codec_out.result.raw)) = 2 * 5
                /\ EncodedFlag(codec_out.result.raw) = 4
           ELSE /\ EncodedPayload(codec_out.result.raw) = <<>>
                /\ EncodedFlag(codec_out.result.raw) = 10

\* C20: for every value 0x00..0xFF of the status byte of a ThermostatState or
\* of the status tail of an Ack, the decoded status has is_locked, rferror
\* and battery_low false, mode named by the byte's two low bits, dstsetting
\* its bit 2 and langateway its bit 3
C20_StatusFlagsAlwaysFalse ==
    (codec_in.kind \in {"ThermostatState", "Ack"} /\ codec_out # NotCalled) =>
        /\ codec_out.result.err = None
        /\ codec_out.result.val["is_locked"] = FALSE
        /\ codec_out.result.val["rferror"] = FALSE
        /\ codec_out.result.val["battery_low"] = FALSE
        /\ codec_out.result.val["mode"] = MODE_IDS[(codec_in.status % 4) + 1]
        /\ codec_out.result.val["dstsetting"] = ((codec_in.status \div 4) % 2 = 1)
        /\ codec_out.result.val["langateway"] = ((codec_in.status \div 8) % 2 = 1)

\* the setpoint and the mode a SetTemperature was encoded with
IsSetpointTrip ==
    /\ codec_in.kind = "RoundTrip" /\ codec_in.msg.cls = "SetTemperatureMessage"
    /\ codec_out # NotCalled
Clamp(t10) == IF t10 > 305 THEN 305 ELSE IF t10 < 45 THEN 45 ELSE t10
NearestHalf(t10) == 5 * ((2 * t10 + 5) \div 10)

\* C21: encoding a SetTemperature with setpoint t and mode m and decoding the
\* result gives mode m and the setpoint round(clamp(t, 4.5, 30.5) * 2) / 2,
\* which lies in 4.5 .. 30.5; the packed byte (mode << 6) | (temp * 2) fits in
\* 8 bits (temperatures in tenths of a degree)
C21_SetpointRoundTrip ==
    IsSetpointTrip =>
        LET t == codec_in.arg.val["desired_temperature"]
            m == codec_in.arg.val["mode"]
            got == codec_out.decoded
        IN  /\ codec_out.err = None /\ got.err = None
            /\ got.val["mode"] = m
            /\ got.val["desired_temperature"] = NearestHalf(Clamp(t))
            /\ got.val["desired_temperature"] \in 45 .. 305
            /\ Len(codec_out.msg.payload) = 2
            /\ FromHex(codec_out.msg.payload)[1]
                   = ModeByName(m) * 64 + NearestHalf(Clamp(t)) \div 5

\* a setpoint off the half degree came back rounded, one above the range clamped
C21_Witness ==
    /\ IsSetpointTrip
    /\ \/ /\ codec_in.arg.val["desired_temperature"] = 48
          /\ codec_out.decoded.val["desired_temperature"] = 50
       \/ /\ codec_in.arg.val["desired_temperature"] = 1000
          /\ codec_in.arg.val["mode"] = "boost"
          /\ codec_out.decoded.val["desired_temperature"] = 305
          /\ codec_out.decoded.val["mode"] = "boost"

\* C22: for every known class, every header within the field widths and every
\* payload, decode_message(encode_message(m)) is of the same class and has the
\* counter, flag, sender_id, receiver_id, group_id and payload m has after
\* encoding; the length field is the number of body bytes and the "Zs" string
\* is accepted by the decoder
C22_MessageRoundTrip ==
    (codec_in.kind = "RoundTrip" /\ codec_out # NotCalled) =>
        /\ codec_out.err = None
        /\ codec_out.msg = codec_out.sent
        /\ codec_out.msg.cls = codec_in.msg.cls
        /\ StartsWith(codec_out.raw, <<"Z", "s">>)
        /\ Int16(Slice(codec_out.raw, 2, 4)) * 2 = Len(codec_out.raw) - 4

\* a WakeUp with every header field at the top of its width came back as sent
C22_Witness ==
    /\ codec_in.kind = "RoundTrip" /\ codec_out # NotCalled
    /\ codec_in.msg.cls = "WakeUpMessage"
    /\ codec_in.msg.counter = 255 /\ codec_in.msg.flag = 255
    /\ codec_in.msg.sender_id = 16777215 /\ codec_in.msg.receiver_id = 16777215
    /\ codec_in.msg.group_id = 255 /\ codec_in.msg.payload # <<>>
    /\ codec_out.err = None /\ codec_out.msg = codec_in.msg

\* C23: decoding the 5-byte TimeInformation payload that encoding a date-time
\* (year 2000..2255) produced returns the same date-time: the month, split
\* over the top bits of bytes 3 and 4, comes back unchanged and leaves minute
\* and second alone
C23_DateTimeRoundTrip ==
    (/\ codec_in.kind = "RoundTrip" /\ codec_in.arg.kind = "datetime"
     /\ codec_out # NotCalled) =>
        /\ codec_out.err = None /\ codec_out.decoded.err = None
        /\ Len(codec_out.msg.payload) = 2 * 5
        /\ codec_out.decoded.val = codec_in.arg.val

\* a month with bits in both bytes, beside the largest minute and second
C23_Witness ==
    /\ codec_in.kind = "RoundTrip" /\ codec_in.arg.kind = "datetime"
    /\ codec_out # NotCalled
    /\ codec_in.arg.val.month = 7 /\ codec_in.arg.val.year = 2255
    /\ codec_in.arg.val.minute = 59 /\ codec_in.arg.val.second = 59
    /\ codec_out.decoded.err = None
    /\ codec_out.decoded.val.month = 7 /\ codec_out.decoded.val.minute = 59
    /\ codec_out.decoded.val.second = 59

(***************************************************************************)
(* The transport's loop once more (Spec).                                  *)
(***************************************************************************)
\* C24: when a frame is staged and the cached budget does not cover it, the
\* transport keeps that frame staged, sets the cached budget to 0 and tells
\* nobody; a staged frame stays the same until it is written, and when it is
\* looked at again in a later iteration a budget query has been written
C24_InsufficientKeepsStaged ==
    [][/\ (SendStep /\ pending_budget <= Cost) =>
              /\ pending_message' = Staged(pending_message, send_queue)
              /\ pending_budget' = 0
              /\ port_out' = port_out
              /\ send_queue' = IF pending_message = <<>> THEN Tail(send_queue)
                               ELSE send_queue
              /\ trace' = trace /\ read_queue' = read_queue
              /\ command_queue' = command_queue
       /\ pending_message # <<>> =>
              \/ pending_message' = pending_message
              \/ pending_message' = <<>> /\ port_out' = Append(port_out, pending_message)
       /\ (com_pc = "send" /\ pending_message # <<>>) =>
              /\ port_out # <<>>
              /\ port_out[Len(port_out)] = <<"X">>]_vars

\* a frame kept from an earlier iteration is looked at again, after the query
C24_Witness ==
    /\ com_pc = "send" /\ pending_message # <<>> /\ loops = MaxLoops
    /\ port_out[Len(port_out)] = <<"X">>

\* the commands of _init_cul among those written so far, in the order written
InitCommands ==
    SelectSeq(port_out, LAMBDA c : c \in {<<"V">>, <<"X", "2", "1">>, <<"Z", "r">>,
                                          <<"T", "0", "1">>})
VersionQueries == SelectSeq(port_out, LAMBDA c : c = <<"V">>)

\* C25: the transport writes V, X21, Zr, T01 in this order and neither a
\* budget query "X" nor a "Zs" frame before T01 is written; when the
\* initialization has failed it writes no "Zs" frame at all
C25_InitBeforeTraffic ==
    /\ \E n \in 0 .. 3 :
           InitCommands = VersionQueries
                          \o SubSeq(<<<<"X", "2", "1">>, <<"Z", "r">>, <<"T", "0", "1">>>>, 1, n)
    /\ \A i \in 1 .. Len(port_out) :
           (port_out[i] = <<"X">> \/ IsZs(port_out[i])) =>
               \E j \in 1 .. (i - 1) : port_out[j] = <<"T", "0", "1">>
    /\ com_stop => \A i \in 1 .. Len(port_out) : ~IsZs(port_out[i])

\* a frame has been transmitted, after the whole initialization
C25_Witness ==
    \E i, j \in 1 .. Len(port_out) :
        /\ i < j /\ port_out[i] = <<"T", "0", "1">> /\ IsZs(port_out[j])
        /\ port_out[1] = <<"V">>

\* the initialization has failed and the engine has queued a frame all the same
C25_FailedInitWitness == com_stop /\ com_pc = "done" /\ send_queue # <<>>

(***************************************************************************)
(* The handlers once more (SpecHandlers).                                  *)
(***************************************************************************)
\* no branch of respond_to_message acts on msg
MatchesNoHandler(msg) ==
    \/ msg.cls \notin {"PairPingMessage", "TimeInformationMessage",
                       "ThermostatStateMessage", "AckMessage"}
    \/ msg.cls = "TimeInformationMessage"
       /\ (msg.payload # <<>> \/ msg.receiver_id # CUBE_ID)
    \/ msg.cls = "AckMessage" /\ ~IsOkAckToCube(msg)

\* the engine takes a line that decodes to such a message
HandlesUnmatched ==
    /\ engine_pc = "run" /\ read_queue # <<>> /\ clock' = clock + 1
    /\ LET d == decode_message(DropLast2(Head(read_queue)))
       IN  /\ d.err = None /\ IsHexString(Last2(Head(read_queue)))
           /\ MatchesNoHandler(d.msg)

\* C26: handling an inbound message that matches no handler (an opaque
\* class, a SetTemperature or PairPong, a TimeInformation with a payload or
\* not addressed to the cube, an Ack not addressed to the cube or not ok)
\* leaves the device registry, the command queue and the send queue as they
\* are and publishes no event
C26_UnmatchedLeavesNoTrace ==
    [][HandlesUnmatched =>
          /\ Added = <<Entry("decoded", clock + 1,
                             decode_message(DropLast2(Head(read_queue))).msg,
                             thermostat_states)>>
          /\ thermostat_states' = thermostat_states
          /\ Pipeline(port_out', pending_message', send_queue', command_queue')
                 = Pipeline(port_out, pending_message, send_queue, command_queue)]_vars

\* a frame of an opaque class has been handled and the engine runs on
C26_Witness ==
    /\ engine_pc = "run" /\ clock >= 1
    /\ trace # <<>>
    /\ trace[Len(trace)].kind = "decoded"
    /\ trace[Len(trace)].msg.cls = "WallThermostatStateMessage"
    /\ thermostat_states = EmptyDict /\ command_queue = <<>> /\ send_queue = <<>>

(***************************************************************************)
(* The engine's look at the transport's budget (Spec).                     *)
(***************************************************************************)
\* the transport writes the staged frame, and it is a PairPong
WritesPairPong ==
    /\ SendStep /\ Len(port_out') = Len(port_out) + 1
    /\ decode_message(Staged(pending_message, send_queue)).msg.cls = "PairPongMessage"

\* C27: whenever a PairPong frame is written to the serial port the cached
\* budget of the transport is >= 2000 at that moment: the budget the engine
\* saw when it decided to answer still holds when the answer is transmitted
C27_PairPongWrittenOnBudget ==
    [][WritesPairPong => pending_budget >= PairBudget]_vars

\* the transport writes the staged frame
WritesFrame ==
    /\ SendStep /\ Len(port_out') > Len(port_out)
    /\ IsZs(Staged(pending_message, send_queue))

\* C28: between any two "Zs" frames written to the serial port the transport
\* writes at least one budget query "X" and reads at least one "21  " budget
\* report: a step writes one frame at most, and no frame is written on a
\* budget learned before the frame written last
C28_QueryBetweenFrames ==
    [][WritesFrame =>
          /\ port_out' = Append(port_out, Staged(pending_message, send_queue))
          /\ ~zs_unanswered
          /\ \A i \in 1 .. Len(port_out) :
                 IsZs(port_out[i]) =>
                     \E k \in (i + 1) .. Len(port_out) : port_out[k] = <<"X">>]_vars

\* two frames have been written, a budget query between them
C28_Witness ==
    \E i, k, j \in 1 .. Len(port_out) :
        /\ i < k /\ k < j
        /\ IsZs(port_out[i]) /\ port_out[k] = <<"X">> /\ IsZs(port_out[j])

(***************************************************************************)
(* From the command queue to the port (SpecLive, Spec).                    *)
(***************************************************************************)
\* the frames of the commands with a valid payload that can be put on the
\* command queue: those of set_temp and the answers to the inbound lines
LiveCommands ==
    {Command(SetTempMessage(THERMOSTAT_A), p) : p \in SubmitPayloads}
    \cup UNION {LET cmds == HandleLine(line, 1, 10 * 250, EmptyDict,
                                        <<TRUE, FALSE, FALSE>>).cmds
                IN  {cmds[i] : i \in 1 .. Len(cmds)} : line \in LiveLines}
LiveFrames ==
    {encode_message(c.msg, c.payload).raw :
        c \in {d \in LiveCommands : encode_message(d.msg, d.payload).err = None}}
Queued(frame) ==
    \E i \in 1 .. Len(command_queue) :
        encode_message(command_queue[i].msg, command_queue[i].payload)
            = [err |-> None, raw |-> frame]
OnPort(frame) == \E i \in 1 .. Len(port_out) : port_out[i] = frame

\* C29: with both workers scheduled fairly and a transceiver that answers
\* each "X" with a budget above 10 x the length of the staged frame, every
\* (message, payload) pair with a valid payload that is put on the command
\* queue is eventually written to the serial port as a "Zs" frame
C29_QueuedEventuallyWritten ==
    \A frame \in LiveFrames : Queued(frame) ~> OnPort(frame)

\* the engine takes a command off the command queue whose encoding raises
\* MissingPayloadParameterError
PopsIncomplete ==
    /\ engine_pc = "run"
    /\ \E out \in {Receive(read_queue, clock + 1, pending_budget, thermostat_states,
                           <<pair_as_cube, pair_as_wallthermostat,
                             pair_as_ShutterContact>>)} :
           /\ out.exc = None
           /\ EncodeCommand(command_queue \o out.cmds).exc = "MissingPayloadParameterError"
           /\ command_queue' = Tail(command_queue \o out.cmds)

\* C30: after the engine has popped a command whose encoding fails with
\* MissingPayloadParameterError it keeps running, so that later commands are
\* still encoded and inbound frames still handled
C30_EngineSurvivesIncomplete ==
    [][PopsIncomplete => engine_pc' = "run"]_vars

====
